---- MODULE Spec2Model ----
(***************************************************************************)
(* State-machine model of agent-core: the plan-step state machine and the  *)
(* bounded replanning loop (application/services), the in-memory memory    *)
(* store with its write locks (infra/adapters/in_memory.py) and the        *)
(* delegation policy callbacks (infra/adk/callbacks.py).                   *)
(*                                                                         *)
(* Python None is the string "none" (or -1 for a timestamp); a dict with   *)
(* string keys is a total function over the key universe whose absent      *)
(* keys map to Absent; identifiers that may contain ':' are sequences of   *)
(* colon-free atoms, so that joining with ':' is sequence concatenation.   *)
(***************************************************************************)
EXTENDS Integers, Sequences, FiniteSets, TLC

VARIABLES
    \* ---- execution loop (orchestrator / execution flow) ----
    pc,             \* position of the run coroutine
    cur,            \* step_index, the loop variable of execute_plan (0-based)
    max_replans,    \* ReplanManager.max_replans
    plan,           \* the Plan object (steps, status, replan_count, ...)
    saved,          \* last snapshot handed to plan_repo.save
    events,         \* event_repo: appended EventRecords of this plan
    bus,            \* message_bus: published lifecycle messages
    failure,        \* exception that ended the run, "none" while running
    replan_calls,   \* number of planner.replan invocations
    write_count,    \* number of memory_repo.write invocations
    exec_returned,  \* set of <<task_id, data>> the executor returned with ok
    task_seq,       \* number of task ids drawn so far (uuid4 is fresh)
    uid_seq,        \* number of PlanStep objects constructed so far
    wall,           \* utc_now() logical clock
    planner_output, \* what planner.create_plan returned to AgentOrchestrator.run
    \* ---- memory store ----
    mem_data,       \* InMemoryMemoryRepository._data
    mem_order,      \* the keys of _data in insertion order (a dict keeps it)
    mem_locks,      \* InMemoryMemoryRepository._locks
    mono,           \* monotonic() clock
    writers,        \* concurrent write() coroutines of the store
    \* ---- step state machine called directly ----
    probe,          \* last direct call of mark_running/complete/failed
    \* ---- policy callbacks ----
    ctx,            \* the bound _TraceContext
    inflight,       \* tool call permitted by before_tool, not yet answered
    last_call,      \* last before_tool_callback call and its return value
    hist,           \* what happened since the last permitted planner transfer
    \* ---- ADK runtime: one request and the memory tools ----
    rq,             \* position and locals of the coroutine AdkRuntime.run
    tool_ctx,       \* value of the context variable _tool_runtime_context
    tool_seq,       \* number of uuid4 suffixes drawn by _new_task_id
    \* ---- HTTP handlers sharing the AdkRuntimeScaffold singleton ----
    adk,            \* container.adk_runtime: resolved endpoint, runner, sessions
    http,           \* the run_agent coroutines in flight, one per HTTP request
    \* ---- large-response tools ----
    large           \* temp files on disk, _TEMP_FILE_REGISTRY, _AGENT_EVENTS, last call

runVars == <<pc, cur, max_replans, plan, saved, events, bus, failure, replan_calls,
             write_count, exec_returned, task_seq, uid_seq, wall, planner_output>>
memVars == <<mem_data, mem_order, mem_locks, mono>>
requestVars == <<rq, tool_ctx, tool_seq, adk, http, large>>
policyVars == <<ctx, inflight, last_call, hist>>
vars == <<pc, cur, max_replans, plan, saved, events, bus, failure, replan_calls,
          write_count, exec_returned, task_seq, uid_seq, wall, mem_data, mem_locks,
          mono, writers, probe, ctx, inflight, last_call, hist, mem_order, rq, tool_ctx,
          tool_seq, planner_output, adk, http, large>>

----------------------------------------------------------------------------
(* Bounds of the model *)

MaxReplansBound == 1     \* max_replans ranges over 0..MaxReplansBound
MaxSteps == 2            \* max_steps; planners return up to MaxSteps + 1 steps
MaxClock == 4            \* monotonic() ranges over 0..MaxClock
LockWaitTimeout == 2     \* lock_wait_timeout_seconds, in clock ticks
LockTtl == 3             \* lock_ttl_seconds, in clock ticks

None == "none"
NoTime == -1

----------------------------------------------------------------------------
(* domain/models.py *)

StepStatus == {"pending", "running", "complete", "failed"}
PlanStatus == {"pending", "planning", "executing", "replanning", "complete", "failed"}

\* A freshly constructed PlanStep: every defaulted field at its default.
\* uid is the identity of the Python object, not a field of the dataclass.
PlanStep(uid, idx, task, skills, shape) ==
    [uid |-> uid, step_index |-> idx, task |-> task, skills |-> skills, shape |-> shape,
     status |-> "pending", task_id |-> None, memory_key |-> <<>>,
     validated |-> FALSE, failure_reason |-> None,
     started_at |-> NoTime, finished_at |-> NoTime]

\* dataclass __eq__ compares the fields, not the identity
FieldsOf(step) == [step EXCEPT !.uid = 0]

----------------------------------------------------------------------------
(* application/services/step_state_machine.py                              *)
(* Each mark_* returns the step after the call and whether it raised.      *)

mark_running(step, now) ==
    IF step.status # "pending"
    THEN [raised |-> TRUE, step |-> step]
    ELSE [raised |-> FALSE,
          step |-> [step EXCEPT !.status = "running", !.started_at = now,
                                !.finished_at = NoTime]]

mark_complete(step, now) ==
    IF step.status # "running"
    THEN [raised |-> TRUE, step |-> step]
    ELSE [raised |-> FALSE,
          step |-> [step EXCEPT !.status = "complete", !.finished_at = now]]

\* mark_failed without its status check
mark_failed_unguarded(step, reason, now) ==
    [raised |-> FALSE,
     step |-> [step EXCEPT !.status = "failed", !.failure_reason = reason,
                           !.finished_at = now]]

mark_failed(step, reason, now) ==
    IF step.status # "running"
    THEN [raised |-> TRUE, step |-> step]
    ELSE [raised |-> FALSE,
          step |-> [step EXCEPT !.status = "failed", !.failure_reason = reason,
                                !.finished_at = now]]

\* variant: resume at the first step of the plan
FirstNonComplete_restart(steps, i) == 0

RECURSIVE FirstNonComplete(_, _)
FirstNonComplete(steps, i) ==
    IF i > Len(steps) THEN Len(steps)
    ELSE IF steps[i].status # "complete" THEN i - 1
    ELSE FirstNonComplete(steps, i + 1)

\* variant: always resume past the end of the step list
next_pending_step_index_end(p) == Len(p.steps)

\* 0-based index of the first step that is not complete, else len(steps)
next_pending_step_index(p) == FirstNonComplete(p.steps, 1)


----------------------------------------------------------------------------
(* Values, return-spec shapes and executor payloads                        *)

Absent == "absent"
Fields == {"intent", "extra"}

\* sample Python values, named by their type
Values == {"s_text", "s_other", "i_7", "b_true", "f_1_5", "l_list", "d_dict", "n_none"}

KindOf(v) ==
    CASE v \in {"s_text", "s_other"} -> "str"
      [] v = "i_7" -> "int"
      [] v = "b_true" -> "bool"
      [] v = "f_1_5" -> "float"
      [] v = "l_list" -> "list"
      [] v = "d_dict" -> "dict"
      [] OTHER -> "NoneType"

\* type labels as written in a return spec; "obj:nonstr" is a label that is
\* not a Python str (a nested dict), " String " needs lower().strip()
Labels == {"string", " String ", "int", "integer", "float", "number", "bool",
           "boolean", "array", "array<string>", "object", "dict", "map",
           "date", "obj:nonstr"}

\* expected.lower().strip()
Normalized(label) == IF label = " String " THEN "string" ELSE label

_matches_expected_type(value, expected) ==
    IF expected = "obj:nonstr" THEN TRUE
    ELSE LET normalized == Normalized(expected) IN
         CASE normalized = "string" -> KindOf(value) = "str"
           [] normalized \in {"int", "integer"} -> KindOf(value) = "int"
           [] normalized \in {"float", "number"} -> KindOf(value) \in {"int", "float"}
           [] normalized \in {"bool", "boolean"} -> KindOf(value) = "bool"
           [] normalized \in {"array", "array<string>"} -> KindOf(value) = "list"
           [] normalized \in {"object", "dict", "map"} -> KindOf(value) = "dict"
           [] OTHER -> TRUE

ShapeKeys(shape) == {f \in Fields : shape[f] # Absent}
DataKeys(data) == {f \in Fields : data[f] # Absent}

\* a contract gate that checks the keys and not the types
_matches_return_spec_contract_keys_only(data, shape) ==
    \A f \in ShapeKeys(shape) : data[f] # Absent

\* InMemoryMemoryRepository's contract gate: keys present and typed
_matches_return_spec_contract(data, shape) ==
    \A f \in ShapeKeys(shape) :
        /\ data[f] # Absent
        /\ _matches_expected_type(data[f], shape[f])

\* a key gate that lets every output through
matches_return_spec_open(data, shape) == TRUE

\* MemoryUseCaseService.matches_return_spec: key subset only
matches_return_spec(data, shape) == ShapeKeys(shape) \subseteq DataKeys(data)

----------------------------------------------------------------------------
(* infra/adapters/in_memory.py: the memory store                           *)

NoKey == <<>>

\* a key that leaves the task id out
_build_namespaced_key_no_task(tenant_id, session_id, task_id, key) ==
    tenant_id \o session_id \o key

\* f"{tenant_id}:{session_id}:{task_id}:{key}"; an identifier is the
\* sequence of its colon-free atoms, so the join is concatenation
_build_namespaced_key(tenant_id, session_id, task_id, key) ==
    tenant_id \o session_id \o task_id \o key

\* ":" in key
HasColon(id) == Len(id) > 1

\* _validate_user_key_label followed by the contract gate of write():
\* which error, if any, write raises before touching a lock
WritePrecheck(key, value, shape) ==
    IF HasColon(key) THEN "label_error"
    ELSE IF ~_matches_return_spec_contract(value, shape) THEN "contract_violation"
    ELSE "ok"

\* an eviction that does not look at expires_at
_evict_expired_lock_any(locks, nkey, now) == {l \in locks : l.key # nkey}

_evict_expired_lock(locks, nkey, now) ==
    {l \in locks : ~(l.key = nkey /\ l.expires_at <= now)}

\* an iteration that takes the lock whoever holds it
AcquireIteration_steal(locks, nkey, owner, now, deadline) ==
    [outcome |-> "acquired",
     locks |-> {l \in locks : l.key # nkey} \cup
               {[key |-> nkey, owner_task_id |-> owner, expires_at |-> now + LockTtl]}]

\* one iteration of the loop of _acquire_write_lock
AcquireIteration(locks, nkey, owner, now, deadline) ==
    LET evicted == _evict_expired_lock(locks, nkey, now)
        held == {l \in evicted : l.key = nkey}
    IN IF held = {} \/ (\A l \in held : l.owner_task_id = owner)
       THEN [outcome |-> "acquired",
             locks |-> (evicted \ held) \cup
                       {[key |-> nkey, owner_task_id |-> owner,
                         expires_at |-> now + LockTtl]}]
       ELSE IF now >= deadline
       THEN [outcome |-> "memory_lock_timeout", locks |-> evicted]
       ELSE [outcome |-> "sleep", locks |-> evicted]

\* a store that keeps the shape where the value belongs
StoreRecord_shape_as_value(data, nkey, tenant_id, session_id, task_id, key, value, shape, scope) ==
    {r \in data : r.key # nkey} \cup
    {[key |-> nkey, tenant_id |-> tenant_id, session_id |-> session_id,
      task_id |-> task_id, scope |-> scope, label |-> key, value |-> shape,
      return_spec_shape |-> shape]}

\* self._data[namespaced] = {...}
StoreRecord(data, nkey, tenant_id, session_id, task_id, key, value, shape, scope) ==
    {r \in data : r.key # nkey} \cup
    {[key |-> nkey, tenant_id |-> tenant_id, session_id |-> session_id,
      task_id |-> task_id, scope |-> scope, label |-> key, value |-> value,
      return_spec_shape |-> shape]}

\* a dict keeps a key where it was first inserted
InsertKey(order, nkey) ==
    IF \E i \in 1..Len(order) : order[i] = nkey THEN order ELSE Append(order, nkey)

\* read(): the stored value, "none" when there is no record
ReadValue(data, nkey) ==
    IF \E r \in data : r.key = nkey
    THEN (CHOOSE r \in data : r.key = nkey).value
    ELSE None

\* a read that leaves the lock where it is
ReleaseLock_not_requested(locks, nkey) == locks

\* the release_lock branch of read()
ReleaseLock(locks, nkey) == {l \in locks : l.key # nkey}


----------------------------------------------------------------------------
(* application/services/plan_validator.py                                  *)

SkillNames == {"skill_intent_analyzer", "Spawn_SubAgent_tool", " agent/run "}

\* any(token in skill_name.strip().lower() for token in _FORBIDDEN_SKILL_TOKENS)
HasForbiddenToken(skill_name) == skill_name \in {"Spawn_SubAgent_tool", " agent/run "}

\* variant: the forbidden-token scan runs before the length check
validate_plan_steps_token_first(steps, max_steps) ==
    IF Len(steps) = 0 THEN "planner_returned_empty_plan"
    ELSE IF \E i \in 1..Len(steps) :
               \E j \in 1..Len(steps[i].skills) : HasForbiddenToken(steps[i].skills[j])
    THEN "subagent_spawning_not_allowed"
    ELSE IF Len(steps) > max_steps THEN "plan_infeasible_over_max_steps"
    ELSE "ok"

validate_plan_steps(steps, max_steps) ==
    IF Len(steps) = 0 THEN "planner_returned_empty_plan"
    ELSE IF Len(steps) > max_steps THEN "plan_infeasible_over_max_steps"
    ELSE IF \E i \in 1..Len(steps) :
               \E j \in 1..Len(steps[i].skills) : HasForbiddenToken(steps[i].skills[j])
    THEN "subagent_spawning_not_allowed"
    ELSE "ok"

----------------------------------------------------------------------------
(* The collaborators of the loop: planner and executor replies             *)

ShapeIntent == [f \in Fields |-> IF f = "intent" THEN "string" ELSE Absent]

NoData == [f \in Fields |-> Absent]
DataExact == [f \in Fields |-> IF f = "intent" THEN "s_text" ELSE Absent]
DataExtra == [f \in Fields |-> IF f = "intent" THEN "s_other" ELSE "i_7"]
DataMissing == [f \in Fields |-> IF f = "intent" THEN Absent ELSE "s_text"]
DataMistyped == [f \in Fields |-> IF f = "intent" THEN "i_7" ELSE Absent]

\* The payload of a successful execution names the step, as
\* MockExecutorAgent's f"mock_{step.step_index}" does
OkData(step) == IF step.step_index % 2 = 1 THEN DataExact ELSE DataExtra

\* StepExecutionResult values an ExecutorAgent may return for a step
ExecResults(step) ==
    {[status |-> "ok", has_data |-> TRUE, data |-> d, reason |-> None] :
        d \in {OkData(step), DataMissing, DataMistyped}}
    \cup {[status |-> "ok", has_data |-> FALSE, data |-> NoData, reason |-> None],
          [status |-> "insufficient", has_data |-> FALSE, data |-> NoData,
           reason |-> "single step cannot complete"],
          [status |-> "failed", has_data |-> FALSE, data |-> NoData,
           reason |-> "simulated_failure"],
          [status |-> "failed", has_data |-> FALSE, data |-> NoData, reason |-> None]}

GoodSkills == <<"skill_intent_analyzer">>
BadSkills == <<"skill_intent_analyzer", "Spawn_SubAgent_tool">>

\* PlannerOutput of create_plan: n steps numbered 1..n
CreatedSteps(n, skills) ==
    [i \in 1..n |-> PlanStep(i, i, "task", IF i = n THEN skills ELSE GoodSkills, ShapeIntent)]

\* PlannerOutput of replan: n fresh steps numbered from the failed step on,
\* as MockPlannerAgent.replan numbers its revised step
RevisedSteps(failed_step, n, skills, made) ==
    [i \in 1..n |-> PlanStep(made + i, failed_step.step_index + i - 1, "retry",
                             IF i = n THEN skills ELSE GoodSkills, failed_step.shape)]

PlannerReplies ==
    {[raises |-> TRUE, n |-> 0, skills |-> GoodSkills]}
    \cup {[raises |-> FALSE, n |-> n, skills |-> GoodSkills] : n \in 0..(MaxSteps + 1)}
    \cup {[raises |-> FALSE, n |-> n, skills |-> BadSkills] : n \in {1, MaxSteps + 1}}

\* planner_output before create_plan has returned
NoPlannerOutput == [returned |-> FALSE, steps |-> <<>>]

\* x or default
OrElse(x, default) == IF x \in {None, ""} THEN default ELSE x

TaskIds == <<"task_01", "task_02", "task_03", "task_04", "task_05", "task_06",
             "task_07", "task_08", "task_09", "task_10", "task_11", "task_12",
             "task_13", "task_14", "task_15", "task_16", "task_17", "task_18",
             "task_19", "task_20", "task_21", "task_22", "task_23", "task_24">>

\* f"step_{step.step_index}_output"
StepLabels == <<"step_1_output", "step_2_output", "step_3_output", "step_4_output",
                "step_5_output", "step_6_output", "step_7_output", "step_8_output",
                "step_9_output", "step_10_output", "step_11_output", "step_12_output",
                "step_13_output", "step_14_output", "step_15_output", "step_16_output">>

RequestTenant == <<"tenant_1">>
RequestSession == <<"session_1">>

\* an event record that does not say what happened
Event_untyped(type, step) ==
    [type |-> "step.event", step_index |-> step.step_index, task_id |-> step.task_id]

Event(type, step) == [type |-> type, step_index |-> step.step_index, task_id |-> step.task_id]

NoResponse ==
    [status |-> None, reason |-> None, completed_steps |-> <<>>,
     last_failure |-> [step |-> 0, reason |-> None]]

NoFailure == [kind |-> None, reason |-> None, response |-> NoResponse]

NoPlan ==
    [status |-> "pending", steps |-> <<>>, replan_count |-> 0,
     replan_history |-> <<>>, completed_at |-> NoTime]

\* every step counted as completed
CompletedOf_all(steps) == steps

CompletedOf(steps) == SelectSeq(steps, LAMBDA s : s.status = "complete")


----------------------------------------------------------------------------
(* application/services/replan_manager.py                                  *)

\* the budget test with > in place of >=
BudgetExhausted_strict(count, limit) == count > limit

\* variant: a budget of one replan more than max_replans
BudgetExhausted_one_more(count, limit) == count >= limit + 1

\* plan.replan_count >= self.max_replans
BudgetExhausted(count, limit) == count >= limit

\* a failure object that lists every step of the plan as completed
FailureResponse_all_steps(p, failed_step) ==
    [status |-> "failed",
     reason |-> "max replan attempts reached",
     completed_steps |->
        [i \in 1..Len(p.steps) |->
            [step_index |-> p.steps[i].step_index,
             task |-> p.steps[i].task,
             status |-> p.steps[i].status,
             memory_key |-> p.steps[i].memory_key]],
     last_failure |-> [step |-> failed_step.step_index,
                       reason |-> OrElse(failed_step.failure_reason, "unknown_failure")]]

FailureResponse(p, failed_step) ==
    LET completed_steps == CompletedOf(p.steps) IN
    [status |-> "failed",
     reason |-> "max replan attempts reached",
     completed_steps |->
        [i \in 1..Len(completed_steps) |->
            [step_index |-> completed_steps[i].step_index,
             task |-> completed_steps[i].task,
             status |-> completed_steps[i].status,
             memory_key |-> completed_steps[i].memory_key]],
     last_failure |-> [step |-> failed_step.step_index,
                       reason |-> OrElse(failed_step.failure_reason, "unknown_failure")]]

\* variant: a merge that leaves the plan in replanning
replan_or_fail_stays_replanning(p, failed_step, trigger, reply, limit, made) ==
    IF BudgetExhausted(p.replan_count, limit)
    THEN [plan |-> [p EXCEPT !.status = "failed"],
          events |-> <<>>, save |-> TRUE, calls |-> 0, made |-> 0,
          raised |-> "ReplanLimitReachedError",
          reason |-> "max replan attempts reached",
          response |-> FailureResponse(p, failed_step)]
    ELSE
      LET p1 == [p EXCEPT !.replan_count = @ + 1, !.status = "replanning"]
          completed_steps == CompletedOf(p.steps)
          remaining_steps ==
              SelectSeq(p.steps, LAMBDA s : s.status # "complete"
                                         /\ FieldsOf(s) # FieldsOf(failed_step))
          triggered == <<[type |-> "replan.triggered",
                          step_index |-> failed_step.step_index,
                          task_id |-> failed_step.task_id]>>
          revised == RevisedSteps(failed_step, reply.n, reply.skills, made)
          verdict == validate_plan_steps(revised, MaxSteps)
      IN IF reply.raises
         THEN [plan |-> p1, events |-> triggered, save |-> FALSE, calls |-> 1, made |-> 0,
               raised |-> "PlannerError", reason |-> "planner_failed",
               response |-> NoResponse]
         ELSE IF verdict # "ok"
         THEN [plan |-> p1, events |-> triggered, save |-> FALSE, calls |-> 1, made |-> reply.n,
               raised |-> "PlanValidationError", reason |-> verdict,
               response |-> [NoResponse EXCEPT !.status = "failed", !.reason = verdict]]
         ELSE [plan |-> [p1 EXCEPT
                          !.replan_history =
                              Append(@, [attempt |-> p1.replan_count,
                                         trigger |-> trigger,
                                         failed_step |-> failed_step.step_index,
                                         reason |-> OrElse(failed_step.failure_reason,
                                                           "step_failed")]),
                          !.steps = completed_steps \o revised \o remaining_steps,
                          !.status = "replanning"],
               events |-> triggered, save |-> TRUE, calls |-> 1, made |-> reply.n,
               raised |-> None, reason |-> None, response |-> NoResponse]

\* ReplanManager.replan_or_fail on plan p whose step failed_step has just
\* failed; reply is what planner.replan answers if it is called.  The
\* result names the plan afterwards, the events appended, whether
\* plan_repo.save was called, whether planner.replan was called and the
\* exception raised ("none" when the call returns).
replan_or_fail(p, failed_step, trigger, reply, limit, made) ==
    IF BudgetExhausted(p.replan_count, limit)
    THEN [plan |-> [p EXCEPT !.status = "failed"],
          events |-> <<>>, save |-> TRUE, calls |-> 0, made |-> 0,
          raised |-> "ReplanLimitReachedError",
          reason |-> "max replan attempts reached",
          response |-> FailureResponse(p, failed_step)]
    ELSE
      LET p1 == [p EXCEPT !.replan_count = @ + 1, !.status = "replanning"]
          completed_steps == CompletedOf(p.steps)
          remaining_steps ==
              SelectSeq(p.steps, LAMBDA s : s.status # "complete"
                                         /\ FieldsOf(s) # FieldsOf(failed_step))
          triggered == <<[type |-> "replan.triggered",
                          step_index |-> failed_step.step_index,
                          task_id |-> failed_step.task_id]>>
          revised == RevisedSteps(failed_step, reply.n, reply.skills, made)
          verdict == validate_plan_steps(revised, MaxSteps)
      IN IF reply.raises
         THEN [plan |-> p1, events |-> triggered, save |-> FALSE, calls |-> 1, made |-> 0,
               raised |-> "PlannerError", reason |-> "planner_failed",
               response |-> NoResponse]
         ELSE IF verdict # "ok"
         THEN [plan |-> p1, events |-> triggered, save |-> FALSE, calls |-> 1, made |-> reply.n,
               raised |-> "PlanValidationError", reason |-> verdict,
               response |-> [NoResponse EXCEPT !.status = "failed", !.reason = verdict]]
         ELSE [plan |-> [p1 EXCEPT
                          !.replan_history =
                              Append(@, [attempt |-> p1.replan_count,
                                         trigger |-> trigger,
                                         failed_step |-> failed_step.step_index,
                                         reason |-> OrElse(failed_step.failure_reason,
                                                           "step_failed")]),
                          !.steps = completed_steps \o revised \o remaining_steps,
                          !.status = "executing"],
               events |-> triggered, save |-> TRUE, calls |-> 1, made |-> reply.n,
               raised |-> None, reason |-> None, response |-> NoResponse]


----------------------------------------------------------------------------
(* application/services/orchestrator.py, execution_flow_service.py and     *)
(* step_execution_handler_service.py: one run                              *)

otherVarsOfRun == <<writers, probe, ctx, inflight, last_call, hist, requestVars>>

SetStep(p, i, step) == [p EXCEPT !.steps[i] = step]

BusMessage(topic, step) ==
    [topic |-> topic, step_index |-> step.step_index, task_id |-> step.task_id,
     status |-> step.status, failure_reason |-> step.failure_reason]

Raise(kind, reason, response) ==
    /\ pc' = "raised"
    /\ failure' = [kind |-> kind, reason |-> reason, response |-> response]

\* AgentOrchestrator.run up to the first loop iteration: create_plan,
\* validate_plan_steps, Plan(status=EXECUTING), save, plan.persisted
CreatePlan(reply) ==
    /\ pc = "start"
    /\ LET steps == CreatedSteps(reply.n, reply.skills)
           verdict == validate_plan_steps(steps, MaxSteps)
       IN IF reply.raises
          THEN /\ Raise("PlannerError", "planner_failed", NoResponse)
               /\ UNCHANGED <<plan, saved, events>>
          ELSE IF verdict # "ok"
          THEN /\ Raise("PlanValidationError", verdict,
                        [NoResponse EXCEPT !.status = "failed", !.reason = verdict])
               /\ UNCHANGED <<plan, saved, events>>
          ELSE /\ plan' = [NoPlan EXCEPT !.steps = steps, !.status = "executing"]
               /\ saved' = plan'
               /\ events' = <<[type |-> "plan.persisted", step_index |-> 0,
                               task_id |-> None]>>
               /\ pc' = "loop"
               /\ UNCHANGED failure
    /\ uid_seq' = IF reply.raises THEN uid_seq ELSE uid_seq + reply.n
    /\ planner_output' = IF reply.raises THEN planner_output
                       ELSE [returned |-> TRUE,
                             steps |-> CreatedSteps(reply.n, reply.skills)]
    /\ UNCHANGED <<cur, max_replans, bus, replan_calls, write_count, exec_returned,
                   task_seq, wall, memVars, otherVarsOfRun>>

\* loop head with step_index < len(plan.steps): mark_running, draw the
\* task id, append step.started, save; the executor is then awaited
StartStep ==
    /\ pc = "loop"
    /\ cur < Len(plan.steps)
    /\ LET m == mark_running(plan.steps[cur + 1], wall) IN
       IF m.raised
       THEN /\ Raise("ValueError", "invalid transition to running", NoResponse)
            /\ UNCHANGED <<plan, saved, events, task_seq, wall>>
       ELSE LET step == [m.step EXCEPT !.task_id = TaskIds[task_seq + 1]] IN
            /\ plan' = SetStep(plan, cur + 1, step)
            /\ events' = Append(events, Event("step.started", step))
            /\ saved' = plan'
            /\ task_seq' = task_seq + 1
            /\ wall' = wall + 1
            /\ pc' = "executing"
            /\ UNCHANGED failure
    /\ UNCHANGED <<cur, max_replans, bus, replan_calls, write_count, exec_returned,
                   uid_seq, memVars, planner_output, otherVarsOfRun>>

\* what handle_insufficient_execution and handle_failed_execution share:
\* mark_failed, the step's event, publish step.failed, replan_or_fail,
\* next_pending_step_index
FailAndReplan(reason, event_type, trigger, reply) ==
    LET m == mark_failed(plan.steps[cur + 1], reason, wall)
        p1 == SetStep(plan, cur + 1, m.step)
        r == replan_or_fail(p1, m.step, trigger, reply, max_replans, uid_seq)
    IN IF m.raised
       THEN /\ Raise("ValueError", "invalid transition to failed", NoResponse)
            /\ UNCHANGED <<plan, saved, events, bus, replan_calls, cur, wall, uid_seq>>
       ELSE /\ plan' = r.plan
            /\ uid_seq' = uid_seq + r.made
            /\ events' = Append(events, Event(event_type, m.step)) \o r.events
            /\ bus' = Append(bus, BusMessage("step.failed", m.step))
            /\ saved' = IF r.save THEN r.plan ELSE saved
            /\ replan_calls' = replan_calls + r.calls
            /\ wall' = wall + 1
            /\ IF r.raised = None
               THEN /\ cur' = next_pending_step_index(r.plan)
                    /\ pc' = "loop"
                    /\ UNCHANGED failure
               ELSE /\ Raise(r.raised, r.reason, r.response)
                    /\ UNCHANGED cur

\* execute_plan's branch for status "insufficient"
HandleInsufficient(e, reply) ==
    /\ pc = "executing"
    /\ ~(e.status = "ok" /\ e.has_data)
    /\ e.status = "insufficient"
    /\ FailAndReplan(OrElse(e.reason, "insufficient"), "step.insufficient",
                     "insufficient", reply)
    /\ UNCHANGED <<max_replans, write_count, exec_returned, task_seq, memVars,
                   planner_output, otherVarsOfRun>>

\* execute_plan's last branch: any other result
HandleFailed(e, reply) ==
    /\ pc = "executing"
    /\ ~(e.status = "ok" /\ e.has_data)
    /\ e.status # "insufficient"
    /\ FailAndReplan(OrElse(e.reason, "unknown_failure"), "step.failed",
                     "step_failed", reply)
    /\ UNCHANGED <<max_replans, write_count, exec_returned, task_seq, memVars,
                   planner_output, otherVarsOfRun>>


\* handle_successful_execution, contract-violation branch: mark_failed,
\* step.contract_violation, replan_or_fail and only then publish step.failed
ContractViolationBranch(reply) ==
    LET m == mark_failed(plan.steps[cur + 1], "contract_violation", wall)
        p1 == SetStep(plan, cur + 1, m.step)
        r == replan_or_fail(p1, m.step, "contract_violation", reply, max_replans, uid_seq)
    IN IF m.raised
       THEN /\ Raise("ValueError", "invalid transition to failed", NoResponse)
            /\ UNCHANGED <<plan, saved, events, bus, replan_calls, cur, wall, uid_seq>>
       ELSE /\ plan' = r.plan
            /\ uid_seq' = uid_seq + r.made
            /\ events' = Append(events, Event("step.contract_violation", m.step))
                         \o r.events
            /\ saved' = IF r.save THEN r.plan ELSE saved
            /\ replan_calls' = replan_calls + r.calls
            /\ wall' = wall + 1
            /\ IF r.raised = None
               THEN /\ bus' = Append(bus, BusMessage("step.failed", m.step))
                    /\ cur' = next_pending_step_index(r.plan)
                    /\ pc' = "loop"
                    /\ UNCHANGED failure
               ELSE /\ Raise(r.raised, r.reason, r.response)
                    /\ UNCHANGED <<cur, bus>>

\* handle_successful_execution, persistence branch: write_step_output
\* (memory_repo.write), mark_complete, validated, memory_key, step.complete,
\* publish, save
PersistBranch(data) ==
    LET step == plan.steps[cur + 1]
        label == <<StepLabels[step.step_index]>>
        task == <<step.task_id>>
        nkey == _build_namespaced_key(RequestTenant, RequestSession, task, label)
        pre == WritePrecheck(label, data, step.shape)
        acq == AcquireIteration(mem_locks, nkey, step.task_id, mono,
                                mono + LockWaitTimeout)
        m == mark_complete(step, wall)
        done == [m.step EXCEPT !.validated = TRUE, !.memory_key = nkey]
    IN IF step.task_id = None
       THEN /\ Raise("ValueError", "step task_id must be set before memory write",
                     NoResponse)
            /\ UNCHANGED <<plan, saved, events, bus, cur, wall, write_count, memVars>>
       ELSE
         /\ write_count' = write_count + 1
         /\ IF pre # "ok"
            THEN /\ Raise(IF pre = "label_error" THEN "ValueError"
                          ELSE "ContractViolationError", pre, NoResponse)
                 /\ UNCHANGED <<plan, saved, events, bus, cur, wall, memVars>>
            ELSE IF acq.outcome # "acquired"
            THEN \* the coroutine sleeps in _acquire_write_lock or times out
                 /\ IF acq.outcome = "sleep"
                    THEN pc' = "lock_wait" /\ UNCHANGED failure
                    ELSE Raise("MemoryLockError", "memory_lock_timeout", NoResponse)
                 /\ mem_locks' = acq.locks
                 /\ UNCHANGED <<plan, saved, events, bus, cur, wall, mem_data, mem_order, mono>>
            ELSE /\ mem_locks' = acq.locks
                 /\ mem_data' = StoreRecord(mem_data, nkey, RequestTenant,
                                            RequestSession, step.task_id, label,
                                            data, step.shape, "session")
                 /\ mem_order' = InsertKey(mem_order, nkey)
                 /\ plan' = SetStep(plan, cur + 1, done)
                 /\ events' = Append(events, Event("step.complete", done))
                 /\ bus' = Append(bus, BusMessage("step.complete", done))
                 /\ saved' = plan'
                 /\ cur' = cur + 1
                 /\ wall' = wall + 1
                 /\ pc' = "loop"
                 /\ UNCHANGED <<failure, mono>>

\* execute_plan's branch for status "ok" with data
HandleSuccessful(e, reply) ==
    /\ pc = "executing"
    /\ e.status = "ok" /\ e.has_data
    /\ exec_returned' = exec_returned \cup {<<plan.steps[cur + 1].task_id, e.data>>}
    /\ IF ~matches_return_spec(e.data, plan.steps[cur + 1].shape)
       THEN /\ ContractViolationBranch(reply)
            /\ UNCHANGED <<write_count, memVars>>
       ELSE /\ PersistBranch(e.data)
            /\ UNCHANGED <<replan_calls, uid_seq>>
    /\ UNCHANGED <<max_replans, task_seq, planner_output, otherVarsOfRun>>

\* MemoryUseCaseService.read_completed_outputs_and_release_locks
RECURSIVE ReleaseAll(_, _)
ReleaseAll(locks, steps) ==
    IF steps = <<>> THEN locks
    ELSE ReleaseAll(IF steps[1].memory_key = NoKey THEN locks
                    ELSE ReleaseLock(locks, steps[1].memory_key),
                    Tail(steps))

\* loop exit: status COMPLETE, completed_at, save, synthesize
FinishPlan ==
    /\ pc = "loop"
    /\ cur >= Len(plan.steps)
    /\ plan' = [plan EXCEPT !.status = "complete", !.completed_at = wall]
    /\ saved' = plan'
    /\ mem_locks' = ReleaseAll(mem_locks, CompletedOf(plan.steps))
    /\ wall' = wall + 1
    /\ pc' = "done"
    /\ UNCHANGED <<cur, max_replans, events, bus, failure, replan_calls, write_count,
                   exec_returned, task_seq, uid_seq, mem_data, mem_order, mono,
                   planner_output, otherVarsOfRun>>

----------------------------------------------------------------------------
(* Initial states *)

InitRunIdle ==
    /\ pc = "start" /\ cur = 0 /\ max_replans = 0
    /\ plan = NoPlan /\ saved = NoPlan
    /\ events = <<>> /\ bus = <<>> /\ failure = NoFailure
    /\ replan_calls = 0 /\ write_count = 0 /\ exec_returned = {}
    /\ task_seq = 0 /\ uid_seq = 0 /\ wall = 0
    /\ planner_output = NoPlannerOutput

InitRun ==
    /\ pc = "start" /\ cur = 0 /\ max_replans \in 0..MaxReplansBound
    /\ plan = NoPlan /\ saved = NoPlan
    /\ events = <<>> /\ bus = <<>> /\ failure = NoFailure
    /\ replan_calls = 0 /\ write_count = 0 /\ exec_returned = {}
    /\ task_seq = 0 /\ uid_seq = 0 /\ wall = 0
    /\ planner_output = NoPlannerOutput

InitMem ==
    /\ mem_data = {} /\ mem_order = <<>> /\ mem_locks = {} /\ mono = 0
    /\ writers = <<>>

InitProbe == probe = [op |-> None]

\* _tool_runtime_context's default: ContextVar(..., default=None)
NoToolContext == [bound |-> FALSE]

\* _trace_context's default
NoTraceContext == [bound |-> FALSE]

\* trace_token = None, and the token local before bind_tool_runtime_context
NoToolToken == [set |-> FALSE, old_value |-> NoToolContext]
NoTraceToken == [set |-> FALSE, old_value |-> NoTraceContext]

\* no request being handled
IdleRequest ==
    [pc |-> "idle", n |-> 0, has_event_repo |-> FALSE, is_first_turn |-> FALSE,
     memory_disabled_by_user |-> FALSE, requests_memory_lookup |-> FALSE,
     tool_context_token |-> NoToolToken, trace_token |-> NoTraceToken, seen |-> 0]

\* _resolved_planner_endpoint = None
NoEndpoint == [headers |-> None]

\* AdkRuntimeScaffold.__init__: no endpoint resolved, the first runner built
InitAdk ==
    [_resolved_planner_endpoint |-> NoEndpoint,
     runner |-> 1,
     runners |-> <<[endpoint |-> NoEndpoint, sessions |-> {}]>>,
     create_calls |-> [s \in {"session_1", "session_2"} |-> 0]]

\* no script result: local_vars has no "result"
NoResult == [exists |-> FALSE, is_dict |-> FALSE, keys |-> {}, bytes |-> 0]

\* sha256 of no script
NoHash == [sha256_of |-> [text |-> None, fields |-> {}]]

\* handle_large_response has not been called
NoLargeCall ==
    [made |-> FALSE, raised |-> FALSE, status |-> None, strategy |-> None,
     reason |-> None, data |-> NoResult, script_hash |-> NoHash,
     required_fields |-> {}, file_id |-> 0,
     execution |-> [status |-> None, reason |-> None, result |-> NoResult]]

\* module state of tool_large_response.py at import, no temp file on disk
InitLarge ==
    [files |-> {}, _TEMP_FILE_REGISTRY |-> {}, _AGENT_EVENTS |-> <<>>, calls |-> 0,
     call |-> NoLargeCall]

InitRequestIdle ==
    /\ rq = IdleRequest
    /\ tool_ctx = NoToolContext
    /\ tool_seq = 0
    /\ adk = InitAdk
    /\ http = <<>>
    /\ large = InitLarge

\* no tool call in flight / made yet
NoCall == [agent |-> None, tool |-> None]
NoLastCall == [agent |-> None, tool |-> None]

InitPolicyIdle ==
    /\ ctx = [bound |-> FALSE]
    /\ inflight = NoCall
    /\ last_call = NoLastCall
    /\ hist = [any |-> FALSE]

NextRun ==
    \/ \E reply \in PlannerReplies : CreatePlan(reply)
    \/ StartStep
    \/ /\ pc = "executing"
       /\ \E e \in ExecResults(plan.steps[cur + 1]), reply \in PlannerReplies :
             HandleSuccessful(e, reply)
    \/ /\ pc = "executing"
       /\ \E e \in ExecResults(plan.steps[cur + 1]), reply \in PlannerReplies :
             HandleInsufficient(e, reply)
    \/ /\ pc = "executing"
       /\ \E e \in ExecResults(plan.steps[cur + 1]), reply \in PlannerReplies :
             HandleFailed(e, reply)
    \/ FinishPlan

RunInit == InitRun /\ InitMem /\ InitProbe /\ InitPolicyIdle /\ InitRequestIdle

SpecRun == RunInit /\ [][NextRun]_vars


----------------------------------------------------------------------------
(* PlanStepStateMachine called directly on an arbitrary PlanStep           *)

DirectSteps ==
    {[PlanStep(0, 1, "task", GoodSkills, ShapeIntent) EXCEPT
        !.status = st, !.failure_reason = fr, !.started_at = sa, !.finished_at = fa] :
     st \in StepStatus, fr \in {None, "earlier_failure"},
     sa \in {NoTime, 0}, fa \in {NoTime, 1}}

DirectOps == {"mark_running", "mark_complete", "mark_failed"}

DirectCall(op, step) ==
    /\ pc = "direct"
    /\ LET res == CASE op = "mark_running" -> mark_running(step, wall)
                    [] op = "mark_complete" -> mark_complete(step, wall)
                    [] OTHER -> mark_failed(step, "direct_reason", wall)
       IN probe' = [op |-> op, before |-> step, after |-> res.step,
                    raised |-> res.raised]
    /\ UNCHANGED <<runVars, memVars, writers, policyVars, requestVars>>

DirectInit ==
    /\ pc = "direct" /\ cur = 0 /\ max_replans = 0
    /\ plan = NoPlan /\ saved = NoPlan
    /\ events = <<>> /\ bus = <<>> /\ failure = NoFailure
    /\ replan_calls = 0 /\ write_count = 0 /\ exec_returned = {}
    /\ task_seq = 0 /\ uid_seq = 0 /\ wall = 5
    /\ planner_output = NoPlannerOutput
    /\ InitMem /\ InitProbe /\ InitPolicyIdle /\ InitRequestIdle

StepsInit == RunInit \/ DirectInit

NextSteps ==
    \/ NextRun
    \/ \E op \in DirectOps, step \in DirectSteps : DirectCall(op, step)


\* one run of the loop, or direct calls of the state machine
SpecSteps == StepsInit /\ [][NextSteps]_vars

----------------------------------------------------------------------------
(* infra/adk/callbacks.py and infra/adk/runtime.py: delegation policy       *)

_MEMORY_TOOL_NAMES ==
    {"write_memory", "read_memory", "save_user_memory", "save_action_memory",
     "search_relevant_memory"}

AgentNames ==
    {"orchestrator_manager", "memory_subagent_c", "planner_subagent_a",
     "executor_subagent_b", "communicator_subagent_d"}

ToolNames ==
    _MEMORY_TOOL_NAMES \cup
    {"transfer_to_agent", "find_relevant_skill", "load_instruction", "load_instructions",
     "exec_python"}

\* args of a tool call: whether "return_spec" is a key, and args.get("agent_name")
ToolArgs ==
    [has_return_spec : BOOLEAN, agent_name : AgentNames \cup {None}]

\* the calls an agent can make: agent_name matters to transfers and
\* return_spec to write_memory only
ToolCalls ==
    {c \in [agent : AgentNames, tool : ToolNames, args : ToolArgs] :
        /\ c.tool # "transfer_to_agent" => c.args.agent_name = None
        /\ c.tool # "write_memory" => ~c.args.has_return_spec}

\* bind_trace_context: a fresh _TraceContext
bind_trace_context(planner_first, allow_memory, memory_precheck) ==
    [bound |-> TRUE,
     require_planner_first_transfer |-> planner_first,
     allow_memory_usage |-> allow_memory,
     require_memory_precheck |-> memory_precheck,
     memory_precheck_seen |-> FALSE,
     planner_transfer_seen |-> FALSE,
     planner_find_skill_called |-> FALSE,
     planner_load_skill_called |-> FALSE,
     planner_no_skill_found |-> FALSE]

\* variant: the pre-check flag is not overridden when memory is disabled
RequestContext_no_override(is_first_turn, memory_disabled_by_user, requests_memory_lookup) ==
    bind_trace_context(is_first_turn,
                       ~memory_disabled_by_user,
                       is_first_turn \/ requests_memory_lookup)

\* AdkRuntime.run: the context bound for a request
RequestContext(is_first_turn, memory_disabled_by_user, requests_memory_lookup) ==
    bind_trace_context(is_first_turn,
                       ~memory_disabled_by_user,
                       IF memory_disabled_by_user THEN FALSE
                       ELSE is_first_turn \/ requests_memory_lookup)

\* before_tool_callback returning None: the call goes ahead
Permitted ==
    [status |-> None, reason |-> None, required_agent |-> Absent, required_tool |-> Absent]

\* a veto reported as a failure of the tool
Blocked_as_failed(reason, required_agent, required_tool) ==
    [status |-> "failed", reason |-> reason,
     required_agent |-> required_agent, required_tool |-> required_tool]

Blocked(reason, required_agent, required_tool) ==
    [status |-> "blocked", reason |-> reason,
     required_agent |-> required_agent, required_tool |-> required_tool]

\* a pre-check that never blocks
PrecheckBlocks_never(c, destination) == FALSE

\* lines 411-415: the memory pre-check is still owed
PrecheckBlocks(c, destination) ==
    /\ destination \in {"planner_subagent_a", "executor_subagent_b"}
    /\ c.require_memory_precheck
    /\ ~c.memory_precheck_seen

\* a planner transfer that leaves the skill flags as they are
AfterPlannerTransfer_no_reset(c) == [c EXCEPT !.planner_transfer_seen = TRUE]

\* lines 430-434
AfterPlannerTransfer(c) ==
    [c EXCEPT !.planner_transfer_seen = TRUE,
              !.planner_find_skill_called = FALSE,
              !.planner_load_skill_called = FALSE,
              !.planner_no_skill_found = FALSE]

\* a planner-first rule that never blocks
PlannerFirstBlocks_never(c, destination) == FALSE

\* lines 436-440
PlannerFirstBlocks(c, destination) ==
    /\ destination = "executor_subagent_b"
    /\ c.require_planner_first_transfer
    /\ ~c.planner_transfer_seen

\* a skill gate applied to every destination, the planner included
SkillGate_any_destination(c, destination) ==
    IF c.planner_transfer_seen /\ ~c.planner_find_skill_called
    THEN Blocked("planner_must_discover_skills_before_executor", Absent,
                 "find_relevant_skill")
    ELSE Permitted

\* lines 455-487: Permitted when the executor transfer passes the skill gate
SkillGate(c, destination) ==
    IF destination = "executor_subagent_b" /\ c.planner_transfer_seen
    THEN IF ~c.planner_find_skill_called
         THEN Blocked("planner_must_discover_skills_before_executor", Absent,
                      "find_relevant_skill")
         ELSE IF ~c.planner_load_skill_called /\ ~c.planner_no_skill_found
         THEN Blocked("planner_must_load_skills_before_executor", Absent,
                      "load_instruction_or_load_instructions")
         ELSE Permitted
    ELSE Permitted

\* lines 489-495
NotePlannerTool(c, agent_name, tool) ==
    IF c.bound /\ agent_name = "planner_subagent_a"
    THEN [c EXCEPT
            !.planner_find_skill_called = @ \/ tool = "find_relevant_skill",
            !.planner_load_skill_called =
                @ \/ tool \in {"load_instruction", "load_instructions"}]
    ELSE c

\* lines 342-487: the transfer rows
TransferRows(c, agent_name, destination) ==
    IF destination = "memory_subagent_c" /\ agent_name # "orchestrator_manager"
    THEN [result |-> Blocked("memory_transfer_allowed_only_from_orchestrator",
                             "orchestrator_manager", Absent), ctx |-> c]
    ELSE IF agent_name = "memory_subagent_c" /\ destination # "orchestrator_manager"
    THEN [result |-> Blocked("memory_subagent_must_return_to_orchestrator",
                             "orchestrator_manager", Absent), ctx |-> c]
    ELSE IF destination = "communicator_subagent_d" /\ agent_name # "orchestrator_manager"
    THEN [result |-> Blocked("communicator_transfer_allowed_only_from_orchestrator",
                             "orchestrator_manager", Absent), ctx |-> c]
    ELSE IF destination = "memory_subagent_c" /\ ~c.allow_memory_usage
    THEN [result |-> Blocked("memory_usage_disabled_by_user", Absent, Absent), ctx |-> c]
    ELSE
      LET c1 == IF destination = "memory_subagent_c"
                THEN [c EXCEPT !.memory_precheck_seen = TRUE] ELSE c
      IN IF PrecheckBlocks(c1, destination)
         THEN [result |-> Blocked("memory_precheck_required_before_execution",
                                  "memory_subagent_c", Absent), ctx |-> c1]
         ELSE
           LET c2 == IF destination = "planner_subagent_a"
                     THEN AfterPlannerTransfer(c1) ELSE c1
           IN IF PlannerFirstBlocks(c2, destination)
              THEN [result |-> Blocked("planner_required_before_executor_first_turn",
                                       "planner_subagent_a", Absent), ctx |-> c2]
              ELSE [result |-> SkillGate(c2, destination), ctx |-> c2]

\* before_tool_callback: its return value and the context afterwards
before_tool_callback(c, agent_name, tool, args) ==
    IF tool = "write_memory" /\ ~args.has_return_spec
    THEN [result |-> [status |-> "contract_violation", reason |-> "missing return_spec",
                      required_agent |-> Absent, required_tool |-> Absent],
          ctx |-> c]
    ELSE IF tool \in _MEMORY_TOOL_NAMES /\ agent_name # "memory_subagent_c"
    THEN [result |-> Blocked("memory_tools_reserved_for_memory_subagent",
                             "memory_subagent_c", Absent), ctx |-> c]
    ELSE
      LET rows == IF tool = "transfer_to_agent" /\ c.bound /\ args.agent_name # None
                  THEN TransferRows(c, agent_name, args.agent_name)
                  ELSE [result |-> Permitted, ctx |-> c]
      IN IF rows.result # Permitted
         THEN rows
         ELSE [result |-> Permitted, ctx |-> NotePlannerTool(rows.ctx, agent_name, tool)]

\* A tool result is None (the empty text here) or the text that
\* json.dumps(result, default=str) yields, as the sequence of its words
\* (punctuation marks are words); no result serializes to the empty text.
ResultNone == <<>>
ResultSkillsEmpty == <<"{", "\"skills\":", "[]", "}">>
ResultSkillsEmptyUpper == <<"{", "\"Skills\":", "[]", "}">>
ResultSkillsFound == <<"{", "\"skills\":", "[", "\"skill_intent_analyzer\"", "]", "}">>
ResultResultsEmpty == <<"{", "\"status\":", "\"ok\"", ",", "\"results\":", "[]", "}">>
ResultTextNoSkill == <<"\"", "No", "relevant", "skill", "for", "this", "task", "\"">>
ResultTextOther == <<"\"", "skills", "loaded", "\"">>

ToolResults ==
    {ResultNone, ResultSkillsEmpty, ResultSkillsEmptyUpper, ResultSkillsFound,
     ResultResultsEmpty, ResultTextNoSkill, ResultTextOther}

\* str.lower() on a word
Lower(word) ==
    CASE word = "No" -> "no"
      [] word = "\"Skills\":" -> "\"skills\":"
      [] OTHER -> word

empty_markers ==
    {<<"\"skills\":", "[]">>, <<"\"skill_ids\":", "[]">>, <<"\"matched_skills\":", "[]">>,
     <<"\"results\":", "[]">>, <<"no", "relevant", "skill">>, <<"no", "skills", "found">>}

\* marker in serialized
Contains(text, part) ==
    \E k \in 0..(Len(text) - Len(part)) :
        \A i \in 1..Len(part) : text[k + i] = part[i]

_result_indicates_no_skills(result) ==
    IF result = ResultNone THEN FALSE
    ELSE LET serialized == [i \in 1..Len(result) |-> Lower(result[i])]
         IN \E m \in empty_markers : Contains(serialized, m)

\* an after_tool_callback that only ever sets the flag
after_tool_callback_sticky(c, agent_name, tool, effective_result) ==
    IF c.bound /\ agent_name = "planner_subagent_a" /\ tool = "find_relevant_skill"
    THEN [c EXCEPT !.planner_no_skill_found =
                      @ \/ _result_indicates_no_skills(effective_result)]
    ELSE c

\* after_tool_callback: the context afterwards
after_tool_callback(c, agent_name, tool, effective_result) ==
    IF c.bound /\ agent_name = "planner_subagent_a" /\ tool = "find_relevant_skill"
    THEN [c EXCEPT !.planner_no_skill_found = _result_indicates_no_skills(effective_result)]
    ELSE c

\* what has happened in the request, told without the context's flags:
\* whether a planner / memory transfer has been permitted, and what the
\* planner has done since the most recent permitted planner transfer;
\* last_empty tells whether the planner's most recent find_relevant_skill
\* response of the request had an empty-result marker (find_answered: there
\* is such a response; visit_answered: it came after the most recent
\* permitted planner transfer)
NoHistory ==
    [any |-> TRUE, planner_permitted |-> FALSE, memory_permitted |-> FALSE,
     find_called |-> FALSE, load_called |-> FALSE, empty_seen |-> FALSE,
     find_answered |-> FALSE, visit_answered |-> FALSE, last_empty |-> FALSE]

HistoryAfterCall(h, call, result) ==
    IF result # Permitted THEN h
    ELSE IF call.tool = "transfer_to_agent" /\ call.args.agent_name = "planner_subagent_a"
    THEN [h EXCEPT !.planner_permitted = TRUE, !.find_called = FALSE,
                   !.load_called = FALSE, !.empty_seen = FALSE,
                   !.visit_answered = FALSE]
    ELSE IF call.tool = "transfer_to_agent" /\ call.args.agent_name = "memory_subagent_c"
    THEN [h EXCEPT !.memory_permitted = TRUE]
    ELSE IF call.agent = "planner_subagent_a"
    THEN [h EXCEPT !.find_called = @ \/ call.tool = "find_relevant_skill",
                   !.load_called = @ \/ call.tool \in {"load_instruction",
                                                       "load_instructions"}]
    ELSE h

\* the body of a response contains an empty-result marker
HasEmptyMarker(response) ==
    \E m \in empty_markers :
        Contains([i \in 1..Len(response) |-> Lower(response[i])], m)

\* an agent calls a tool: before_tool_callback runs; a call it lets through
\* is in flight until its result arrives
BeforeTool(call) ==
    /\ ctx.bound
    /\ inflight = NoCall
    /\ LET r == before_tool_callback(ctx, call.agent, call.tool, call.args) IN
       /\ ctx' = r.ctx
       /\ last_call' = [agent |-> call.agent, tool |-> call.tool, args |-> call.args,
                        result |-> r.result]
       /\ inflight' = IF r.result = Permitted
                      THEN [agent |-> call.agent, tool |-> call.tool] ELSE NoCall
       /\ hist' = HistoryAfterCall(hist, call, r.result)
    /\ UNCHANGED <<runVars, memVars, writers, probe, requestVars>>

\* the tool in flight answers: after_tool_callback runs
AfterTool(effective_result) ==
    /\ ctx.bound
    /\ inflight # NoCall
    /\ ctx' = after_tool_callback(ctx, inflight.agent, inflight.tool, effective_result)
    /\ hist' = IF /\ inflight.agent = "planner_subagent_a"
                  /\ inflight.tool = "find_relevant_skill"
               THEN [hist EXCEPT
                       !.empty_seen = @ \/ HasEmptyMarker(effective_result),
                       !.find_answered = TRUE, !.visit_answered = TRUE,
                       !.last_empty = HasEmptyMarker(effective_result)]
               ELSE hist
    /\ inflight' = NoCall
    /\ UNCHANGED <<last_call, runVars, memVars, writers, probe, requestVars>>

\* AdkRuntime.run binds the context of the request
PolicyInit ==
    /\ InitRunIdle /\ InitMem /\ InitProbe /\ InitRequestIdle
    /\ \E is_first_turn \in BOOLEAN, memory_disabled_by_user \in BOOLEAN,
          requests_memory_lookup \in BOOLEAN :
          ctx = RequestContext(is_first_turn, memory_disabled_by_user,
                               requests_memory_lookup)
    /\ inflight = NoCall
    /\ last_call = NoLastCall
    /\ hist = NoHistory

NextPolicy ==
    \/ \E call \in ToolCalls : BeforeTool(call)
    \/ \E effective_result \in ToolResults : AfterTool(effective_result)

\* the tool calls of one request
SpecPolicy == PolicyInit /\ [][NextPolicy]_vars

----------------------------------------------------------------------------
(* infra/adapters/in_memory.py: write() coroutines running concurrently     *)

\* Two callers of write().  Their session and task ids differ, but the ids
\* are not checked for ':' and join to the same namespaced key.
WriterIds ==
    <<[tenant_id |-> <<"tenant_1">>, session_id |-> <<"s", "x">>, task_id |-> <<"a">>],
      [tenant_id |-> <<"tenant_1">>, session_id |-> <<"s">>, task_id |-> <<"x", "a">>]>>

Writers == 1..Len(WriterIds)

\* key labels passed to write(): a short label and one containing ':'
KeyLabels == {<<"k">>, <<"k", "z">>}

WriteValues == {DataExact, DataExtra, DataMissing, DataMistyped}

IdleWriter == [pc |-> "idle", key |-> NoKey, value |-> NoData, deadline |-> 0]

KeyOf(w, key) ==
    _build_namespaced_key(WriterIds[w].tenant_id, WriterIds[w].session_id,
                          WriterIds[w].task_id, key)

\* the loop of _acquire_write_lock from its current iteration to the next
\* sleep, and the rest of write() when the loop returns
AcquireAndStore(w, key, value, deadline) ==
    LET nkey == KeyOf(w, key)
        acq == AcquireIteration(mem_locks, nkey, WriterIds[w].task_id, mono, deadline)
    IN /\ mem_locks' = acq.locks
       /\ mem_data' = IF acq.outcome = "acquired"
                      THEN StoreRecord(mem_data, nkey, WriterIds[w].tenant_id,
                                       WriterIds[w].session_id, WriterIds[w].task_id,
                                       key, value, ShapeIntent, "session")
                      ELSE mem_data
       /\ mem_order' = IF acq.outcome = "acquired"
                       THEN InsertKey(mem_order, nkey)
                       ELSE mem_order
       /\ writers' = [writers EXCEPT ![w] =
                         IF acq.outcome = "sleep"
                         THEN [pc |-> "waiting", key |-> key, value |-> value,
                               deadline |-> deadline]
                         ELSE IdleWriter]
       /\ probe' = [op |-> "write", writer |-> w, key |-> key, value |-> value,
                    at |-> mono,
                    outcome |-> IF acq.outcome = "acquired" THEN "ok" ELSE acq.outcome,
                    returned |-> IF acq.outcome = "acquired" THEN nkey ELSE NoKey]

\* write() from its call to its first await, return or raise
WriteCall(w, key, value) ==
    /\ writers[w].pc = "idle"
    /\ LET pre == WritePrecheck(key, value, ShapeIntent) IN
       IF pre # "ok"
       THEN /\ probe' = [op |-> "write", writer |-> w, key |-> key, value |-> value,
                         at |-> mono, outcome |-> pre]
            /\ UNCHANGED <<mem_data, mem_order, mem_locks, writers>>
       ELSE AcquireAndStore(w, key, value, mono + LockWaitTimeout)
    /\ UNCHANGED <<mono, runVars, policyVars, requestVars>>

\* write() resumed after asyncio.sleep in _acquire_write_lock
WriteRetry(w) ==
    /\ writers[w].pc = "waiting"
    /\ AcquireAndStore(w, writers[w].key, writers[w].value, writers[w].deadline)
    /\ UNCHANGED <<mono, runVars, policyVars, requestVars>>

\* read(namespaced_key, release_lock); outcome "none" is the return value
\* None
Read(w, key, release_lock) ==
    /\ probe' = IF \E r \in mem_data : r.key = KeyOf(w, key)
                THEN [op |-> "read", writer |-> w, key |-> key,
                      value |-> ReadValue(mem_data, KeyOf(w, key)),
                      at |-> mono, outcome |-> "ok", release_lock |-> release_lock]
                ELSE [op |-> "read", writer |-> w, key |-> key, value |-> NoData,
                      at |-> mono, outcome |-> None, release_lock |-> release_lock]
    /\ mem_locks' = IF release_lock THEN ReleaseLock(mem_locks, KeyOf(w, key))
                    ELSE mem_locks
    /\ UNCHANGED <<mem_data, mem_order, mono, writers, runVars, policyVars, requestVars>>

\* monotonic() advances
Tick ==
    /\ mono < MaxClock
    /\ mono' = mono + 1
    /\ UNCHANGED <<mem_data, mem_order, mem_locks, writers, probe, runVars, policyVars,
                   requestVars>>

MemInit ==
    /\ InitRunIdle /\ InitPolicyIdle /\ InitProbe /\ InitRequestIdle
    /\ mem_data = {} /\ mem_order = <<>> /\ mem_locks = {} /\ mono = 0
    /\ writers = [w \in Writers |-> IdleWriter]

NextMem ==
    \/ \E w \in Writers, key \in KeyLabels, value \in WriteValues : WriteCall(w, key, value)
    \/ \E w \in Writers : WriteRetry(w)
    \/ \E w \in Writers, release_lock \in BOOLEAN : Read(w, <<"k">>, release_lock)
    \/ Tick

\* the memory store under concurrent writers
SpecMem == MemInit /\ [][NextMem]_vars

----------------------------------------------------------------------------
(* C1 *)

LegalTransitions ==
    {<<"pending", "running">>, <<"running", "complete">>, <<"running", "failed">>}

TargetOf(op) ==
    CASE op = "mark_running" -> "running"
      [] op = "mark_complete" -> "complete"
      [] OTHER -> "failed"

UidsOf(p) == {p.steps[i].uid : i \in 1..Len(p.steps)}

\* a direct call on a step whose status does not allow it raises and leaves
\* the step as it was; a call that is allowed makes exactly its transition
DirectCallChecked ==
    probe.op # None =>
        IF <<probe.before.status, TargetOf(probe.op)>> \in LegalTransitions
        THEN ~probe.raised /\ probe.after.status = TargetOf(probe.op)
        ELSE /\ probe.raised
             /\ probe.after.status = probe.before.status
             /\ probe.after.failure_reason = probe.before.failure_reason
             /\ probe.after.started_at = probe.before.started_at
             /\ probe.after.finished_at = probe.before.finished_at

\* between two states of a run every step object keeps its status or makes
\* one legal transition; a step object enters the plan pending and leaves it
\* only as the running step that has just failed
RunTransitionsLegal ==
    /\ \A i \in 1..Len(plan.steps) : \A j \in 1..Len(plan'.steps) :
          plan.steps[i].uid = plan'.steps[j].uid =>
             \/ plan'.steps[j].status = plan.steps[i].status
             \/ <<plan.steps[i].status, plan'.steps[j].status>> \in LegalTransitions
    /\ \A j \in 1..Len(plan'.steps) :
          plan'.steps[j].uid \notin UidsOf(plan) => plan'.steps[j].status = "pending"
    /\ \A i \in 1..Len(plan.steps) :
          plan.steps[i].uid \notin UidsOf(plan') =>
             /\ plan.steps[i].status = "running"
             /\ Len(bus') > 0
             /\ bus'[Len(bus')].task_id = plan.steps[i].task_id
             /\ bus'[Len(bus')].status = "failed"

\* C1: every status change of a plan step is pending->running,
\* running->complete or running->failed: over a run of the execution loop
\* no step makes another transition, and mark_running, mark_complete or
\* mark_failed called on a step in any other status raises and leaves the
\* step's status, failure_reason, started_at and finished_at unchanged.
C1_StepTransitions == [][RunTransitionsLegal /\ DirectCallChecked']_vars

\* an illegal direct call has been made and has raised
C1_Witness ==
    /\ probe.op = "mark_failed"
    /\ probe.before.status = "complete"
    /\ probe.raised


----------------------------------------------------------------------------
(* C2 *)

\* C2: in every reachable state of a run plan.replan_count <= max_replans,
\* whatever max_replans >= 0 and whatever the step outcomes (ok,
\* insufficient, failed, contract violation).
C2_ReplanCountBounded == plan.replan_count <= max_replans

\* a positive budget has been used up and one more failure has hit the limit
C2_Witness ==
    /\ max_replans > 0
    /\ plan.replan_count = max_replans
    /\ failure.kind = "ReplanLimitReachedError"

----------------------------------------------------------------------------
(* C3 *)

Triggered(evs) == Cardinality({i \in DOMAIN evs : evs[i].type = "replan.triggered"})

\* the running step fails in this transition: its object is failed
\* afterwards, or has been dropped from the plan by a replan
StepFailsNow ==
    /\ pc = "executing"
    /\ plan.steps[cur + 1].status = "running"
    /\ \/ plan.steps[cur + 1].uid \notin UidsOf(plan')
       \/ \E j \in 1..Len(plan'.steps) :
             /\ plan'.steps[j].uid = plan.steps[cur + 1].uid
             /\ plan'.steps[j].status = "failed"

CompletedSummary(steps) ==
    LET completed_steps == CompletedOf(steps) IN
    [i \in 1..Len(completed_steps) |->
        [step_index |-> completed_steps[i].step_index,
         task |-> completed_steps[i].task,
         status |-> "complete",
         memory_key |-> completed_steps[i].memory_key]]

ExhaustedOutcome ==
    /\ plan'.status = "failed"
    /\ saved' = plan'
    /\ replan_calls' = replan_calls
    /\ Triggered(events') = Triggered(events)
    /\ failure'.kind = "ReplanLimitReachedError"
    /\ failure'.reason = "max replan attempts reached"
    /\ failure'.response.status = "failed"
    /\ failure'.response.reason = "max replan attempts reached"
    /\ failure'.response.completed_steps = CompletedSummary(plan'.steps)
    /\ plan'.steps[cur + 1].status = "failed"
    /\ plan'.steps[cur + 1].failure_reason # None
    /\ failure'.response.last_failure =
          [step |-> plan'.steps[cur + 1].step_index,
           reason |-> plan'.steps[cur + 1].failure_reason]

\* C3: when a step fails (step_failed, insufficient or contract_violation)
\* while plan.replan_count = max_replans, max_replans = 0 included, the
\* plan becomes failed and is saved, planner.replan is not called, no
\* replan.triggered is emitted, and ReplanLimitReachedError is raised with
\* reason 'max replan attempts reached', completed_steps exactly the steps
\* complete at that moment and last_failure the failed step's index and
\* failure reason.
C3_ExhaustedBudget ==
    [][(StepFailsNow /\ plan.replan_count = max_replans) => ExhaustedOutcome]_vars

\* budget 0, one step complete, the next one failed
C3_Witness ==
    /\ max_replans = 0
    /\ failure.kind = "ReplanLimitReachedError"
    /\ Len(failure.response.completed_steps) = 1
    /\ failure.response.last_failure.step = 2


----------------------------------------------------------------------------
(* C9 *)

\* the data the executor returned with ok for the step with this task id
ReturnedFor(task_id) == {rt[2] : rt \in {x \in exec_returned : x[1] = task_id}}

\* C9: for every step in every reachable state, step.memory_key is non-null
\* if and only if step.status = complete; and for every completed step,
\* memory_repo.read(step.memory_key) returns exactly the data the executor
\* returned for that step.
C9_MemoryKeyIffComplete ==
    \A i \in 1..Len(plan.steps) :
        LET step == plan.steps[i] IN
        /\ (step.memory_key # NoKey) <=> (step.status = "complete")
        /\ step.status = "complete" =>
              ReturnedFor(step.task_id) = {ReadValue(mem_data, step.memory_key)}

\* two completed steps with different payloads, one of them produced after a
\* replan, both readable
C9_Witness ==
    /\ plan.replan_count > 0
    /\ Len(plan.steps) >= 2
    /\ plan.steps[1].status = "complete"
    /\ plan.steps[2].status = "complete"
    /\ ReadValue(mem_data, plan.steps[1].memory_key) = DataExact
    /\ ReadValue(mem_data, plan.steps[2].memory_key) = DataExtra

----------------------------------------------------------------------------
(* C10 *)

CompletedCount == Len(CompletedOf(plan.steps))

RecordsOf(task_id) == {r \in mem_data : r.task_id = task_id}

----------------------------------------------------------------------------
(* C4, C5, C6: the delegation policy.  In a step taken with no call in      *)
(* flight, last_call' is the call made in that step and ctx, hist describe  *)
(* the request before it.                                                   *)

TransferAttempt(destination) ==
    /\ inflight = NoCall
    /\ last_call'.tool = "transfer_to_agent"
    /\ last_call'.args.agent_name = destination

BlockedWith(reason) ==
    /\ last_call'.result.status = "blocked"
    /\ last_call'.result.reason = reason

SkillsSettled == hist.find_called /\ (hist.load_called \/ hist.empty_seen)

FlagsReset ==
    /\ ~ctx'.planner_find_skill_called
    /\ ~ctx'.planner_load_skill_called
    /\ ~ctx'.planner_no_skill_found

\* C4 as stated: once a planner transfer has been permitted, an executor
\* transfer is permitted only if the planner has since called
\* find_relevant_skill and either loaded instructions or received an empty
\* find result; otherwise it is blocked with
\* planner_must_discover_skills_before_executor (no find) or
\* planner_must_load_skills_before_executor; every permitted planner
\* transfer resets the three flags.
C4_SkillGateAsStated ==
    [][/\ (TransferAttempt("executor_subagent_b") /\ hist.planner_permitted) =>
             IF SkillsSettled THEN TRUE
             ELSE IF ~hist.find_called
             THEN BlockedWith("planner_must_discover_skills_before_executor")
             ELSE BlockedWith("planner_must_load_skills_before_executor")
       /\ (TransferAttempt("planner_subagent_a") /\ last_call'.result = Permitted) =>
             FlagsReset]_vars

\* C4, amended: as stated, except that an executor transfer attempted by the
\* memory sub-agent is blocked with
\* memory_subagent_must_return_to_orchestrator, whatever the planner did.
C4_SkillGate ==
    [][/\ (TransferAttempt("executor_subagent_b") /\ hist.planner_permitted) =>
             /\ last_call'.result = Permitted => SkillsSettled
             /\ last_call'.agent = "memory_subagent_c" =>
                   BlockedWith("memory_subagent_must_return_to_orchestrator")
             /\ (last_call'.agent # "memory_subagent_c" /\ ~SkillsSettled) =>
                   IF ~hist.find_called
                   THEN BlockedWith("planner_must_discover_skills_before_executor")
                   ELSE BlockedWith("planner_must_load_skills_before_executor")
       /\ (TransferAttempt("planner_subagent_a") /\ last_call'.result = Permitted) =>
             FlagsReset]_vars

\* after a second planner transfer the planner found no skill, loaded
\* nothing, and the executor transfer went through
C4_Witness ==
    /\ last_call.tool = "transfer_to_agent"
    /\ last_call.args.agent_name = "executor_subagent_b"
    /\ last_call.result = Permitted
    /\ hist.find_called /\ ~hist.load_called /\ hist.empty_seen
    /\ ctx.require_memory_precheck

\* C5 as stated: with require_planner_first every executor transfer
\* attempted before a permitted planner transfer returns blocked with
\* planner_required_before_executor_first_turn.
C5_PlannerFirstAsStated ==
    [][(/\ TransferAttempt("executor_subagent_b")
        /\ ctx.require_planner_first_transfer
        /\ ~hist.planner_permitted) =>
           BlockedWith("planner_required_before_executor_first_turn")]_vars

\* C5, amended: with require_planner_first no executor transfer is permitted
\* before a permitted planner transfer; every earlier attempt is blocked,
\* with memory_subagent_must_return_to_orchestrator when the memory
\* sub-agent makes it, else with memory_precheck_required_before_execution
\* while the memory pre-check is owed, else with
\* planner_required_before_executor_first_turn.
C5_PlannerFirst ==
    [][(/\ TransferAttempt("executor_subagent_b")
        /\ ctx.require_planner_first_transfer
        /\ ~hist.planner_permitted) =>
           IF last_call'.agent = "memory_subagent_c"
           THEN BlockedWith("memory_subagent_must_return_to_orchestrator")
           ELSE IF ctx.require_memory_precheck /\ ~hist.memory_permitted
           THEN BlockedWith("memory_precheck_required_before_execution")
           ELSE BlockedWith("planner_required_before_executor_first_turn")]_vars

\* first turn, memory pre-check done, no planner transfer yet: the executor
\* transfer was blocked by the planner-first rule
C5_Witness ==
    /\ last_call.tool = "transfer_to_agent"
    /\ last_call.args.agent_name = "executor_subagent_b"
    /\ last_call.result.reason = "planner_required_before_executor_first_turn"
    /\ ctx.require_planner_first_transfer
    /\ ctx.require_memory_precheck /\ hist.memory_permitted
    /\ ~hist.planner_permitted

PlannerOrExecutorAttempt ==
    TransferAttempt("planner_subagent_a") \/ TransferAttempt("executor_subagent_b")

\* C6 as stated: with require_memory_precheck every planner or executor
\* transfer attempted before a permitted memory transfer returns blocked
\* with memory_precheck_required_before_execution, and after a permitted
\* memory transfer the pre-check never blocks again.
C6_PrecheckAsStated ==
    [][/\ (/\ PlannerOrExecutorAttempt
           /\ ctx.require_memory_precheck
           /\ ~hist.memory_permitted) =>
              BlockedWith("memory_precheck_required_before_execution")
       /\ (inflight = NoCall /\ hist.memory_permitted) =>
              last_call'.result.reason # "memory_precheck_required_before_execution"]_vars

\* C6, amended: with require_memory_precheck no planner or executor transfer
\* is permitted before a permitted memory transfer; every earlier attempt is
\* blocked, with memory_subagent_must_return_to_orchestrator when the memory
\* sub-agent makes it and with memory_precheck_required_before_execution
\* otherwise; after a permitted memory transfer the pre-check never blocks
\* again.
C6_Precheck ==
    [][/\ (/\ PlannerOrExecutorAttempt
           /\ ctx.require_memory_precheck
           /\ ~hist.memory_permitted) =>
              IF last_call'.agent = "memory_subagent_c"
              THEN BlockedWith("memory_subagent_must_return_to_orchestrator")
              ELSE BlockedWith("memory_precheck_required_before_execution")
       /\ (inflight = NoCall /\ hist.memory_permitted) =>
              last_call'.result.reason # "memory_precheck_required_before_execution"]_vars

\* the pre-check blocked a planner transfer, and later, after the memory
\* transfer, a planner transfer went through
C6_Witness ==
    /\ ctx.require_memory_precheck
    /\ ~ctx.require_planner_first_transfer
    /\ hist.memory_permitted
    /\ last_call.tool = "transfer_to_agent"
    /\ last_call.args.agent_name = "planner_subagent_a"
    /\ last_call.result = Permitted


----------------------------------------------------------------------------
(* C7, C8: the memory store.  probe' # probe marks a step in which write()  *)
(* or read() ran; probe' names the caller, the arguments and the outcome.   *)

WriteRuns == probe' # probe /\ probe'.op = "write"

\* the deadline of the write that runs in this step
DeadlineOf(w) ==
    IF writers[w].pc = "waiting" THEN writers[w].deadline ELSE mono + LockWaitTimeout

LocksOn(locks, nkey) == {l \in locks : l.key = nkey}

ForeignLockHeld(w, nkey) ==
    \E l \in LocksOn(mem_locks, nkey) :
        l.owner_task_id # WriterIds[w].task_id /\ l.expires_at > mono

OwnLockHeld(w, nkey) ==
    \E l \in LocksOn(mem_locks, nkey) :
        l.owner_task_id = WriterIds[w].task_id /\ l.expires_at > mono

\* C7: a write to a key whose unexpired lock belongs to another task_id
\* waits, and once lock_wait_timeout has passed with the lock still held
\* it fails with memory_lock_timeout, the stored record and the lock left
\* as they were; a write by the lock's own owner never waits, succeeds and
\* re-acquires the lock.  (A write reaches its key, and the lock on it,
\* once the label and the value have passed write()'s two checks.)
C7_LockWait ==
    [][WriteRuns /\ probe'.outcome \notin {"label_error", "contract_violation"} =>
          LET w == probe'.writer
              nkey == KeyOf(w, probe'.key)
          IN /\ ForeignLockHeld(w, nkey) =>
                   /\ mem_data' = mem_data
                   /\ mem_locks' = mem_locks
                   /\ IF mono >= DeadlineOf(w)
                      THEN probe'.outcome = "memory_lock_timeout" /\ writers'[w].pc = "idle"
                      ELSE /\ probe'.outcome = "sleep"
                           /\ writers'[w].pc = "waiting"
                           /\ writers'[w].deadline = DeadlineOf(w)
             /\ OwnLockHeld(w, nkey) =>
                   /\ writers[w].pc = "idle"
                   /\ probe'.outcome = "ok"
                   /\ writers'[w].pc = "idle"
                   /\ LocksOn(mem_locks', nkey) =
                         {[key |-> nkey, owner_task_id |-> WriterIds[w].task_id,
                           expires_at |-> mono + LockTtl]}
                   /\ ReadValue(mem_data', nkey) = probe'.value]_vars

\* a writer has timed out on a lock another task still holds, the record
\* of that task still stored
C7_Witness ==
    /\ probe.op = "write"
    /\ probe.outcome = "memory_lock_timeout"
    /\ \E l \in mem_locks :
          /\ l.owner_task_id # WriterIds[probe.writer].task_id
          /\ l.expires_at > mono
          /\ \E r \in mem_data : r.key = l.key /\ r.task_id = l.owner_task_id

LacksField(value) == \E f \in ShapeKeys(ShapeIntent) : value[f] = Absent

\* the shape asks for a string
Mistyped(value) ==
    \E f \in ShapeKeys(ShapeIntent) : value[f] # Absent /\ KindOf(value[f]) # "str"

BadValueWritten ==
    /\ WriteRuns
    /\ writers[probe'.writer].pc = "idle"
    /\ LacksField(probe'.value) \/ Mistyped(probe'.value)

\* C8 as stated: a write whose value lacks a field of the shape or has a
\* mistyped field fails with contract_violation, records and lock table
\* unchanged.
C8_ContractBeforeLockAsStated ==
    [][BadValueWritten =>
          /\ probe'.outcome = "contract_violation"
          /\ mem_data' = mem_data
          /\ mem_locks' = mem_locks]_vars

\* C8, amended: a write whose value lacks a field of the shape or has a
\* mistyped field fails before any lock is acquired, records and lock table
\* unchanged: with contract_violation when the key label has no ':', and
\* with the label error when it has one.
C8_ContractBeforeLock ==
    [][BadValueWritten =>
          /\ probe'.outcome = IF HasColon(probe'.key) THEN "label_error"
                              ELSE "contract_violation"
          /\ mem_data' = mem_data
          /\ mem_locks' = mem_locks]_vars

\* a mistyped value was refused while a record and a lock were in the store
C8_Witness ==
    /\ probe.op = "write"
    /\ probe.value = DataMistyped
    /\ probe.outcome = "contract_violation"
    /\ mem_data # {}
    /\ mem_locks # {}

----------------------------------------------------------------------------
(* C11 *)

TerminalEventTypes ==
    {"step.complete", "step.failed", "step.insufficient", "step.contract_violation"}

\* positions in the event log of the events of the execution with this task id
EventsOf(task_id) == {i \in DOMAIN events : events[i].task_id = task_id}

ExecutionsLogged == {events[i].task_id : i \in DOMAIN events} \ {None}

\* C11: in the event log of one plan every executed step's step.started
\* precedes that execution's step.complete, step.failed, step.insufficient
\* or step.contract_violation; every event of the step at plan position N
\* precedes every event of the step at position N+1; and the events of two
\* step executions never interleave.
C11_EventOrder ==
    /\ \A t \in ExecutionsLogged :
          LET first == CHOOSE i \in EventsOf(t) : \A k \in EventsOf(t) : i <= k
              last == CHOOSE i \in EventsOf(t) : \A k \in EventsOf(t) : k <= i
          IN /\ events[first].type = "step.started"
             /\ \A k \in EventsOf(t) \ {first} : events[k].type # "step.started"
             /\ \A k \in first..last : events[k].task_id = t
    /\ \A i \in 1..Len(plan.steps) :
          plan.steps[i].status # "pending" => EventsOf(plan.steps[i].task_id) # {}
    /\ \A i \in 1..Len(plan.steps), j \in 1..Len(plan.steps) :
          i < j => \A a \in EventsOf(plan.steps[i].task_id),
                      b \in EventsOf(plan.steps[j].task_id) :
                         plan.steps[j].task_id # None => a < b
    /\ \A k \in DOMAIN events :
          events[k].type \in TerminalEventTypes => events[k].task_id # None

\* a failed execution, the replan it triggered and two completed executions
\* are all in the log
C11_Witness ==
    /\ \E k \in DOMAIN events : events[k].type = "step.insufficient"
    /\ \E k \in DOMAIN events : events[k].type = "replan.triggered"
    /\ Cardinality({k \in DOMAIN events : events[k].type = "step.complete"}) = 2

----------------------------------------------------------------------------
(* C12 *)

\* a step of the run in which replan_or_fail returned a revised plan
ReplanSucceeds == Len(plan'.replan_history) = Len(plan.replan_history) + 1

\* the steps of the plan that were not complete and are not the step that
\* has just failed, in their order
NotYetRun(p, failed_uid) ==
    SelectSeq(p.steps, LAMBDA s : s.status # "complete" /\ s.uid # failed_uid)

PositionsOf(p, uid) == {i \in 1..Len(p.steps) : p.steps[i].uid = uid}

\* C12: after a successful replan plan.steps equals the steps that were
\* complete, in their prior order, followed by the revised steps the planner
\* returned, in order, followed by the steps that were neither complete nor
\* the failed step, in their prior order: completed steps are kept
\* unmodified, the failed step is removed and every not-yet-run step is kept
\* exactly once.
C12_ReplanMerge ==
    [][ReplanSucceeds =>
        LET failed_step == plan.steps[cur + 1]
            done == SelectSeq(plan.steps, LAMBDA s : s.status = "complete")
            rest == NotYetRun(plan, failed_step.uid)
            n == Len(plan'.steps) - Len(done) - Len(rest)
        IN /\ n >= 0
           /\ plan'.steps = done \o RevisedSteps(failed_step, n, GoodSkills, uid_seq) \o rest
           /\ PositionsOf(plan', failed_step.uid) = {}
           /\ \A i \in 1..Len(plan.steps) :
                 plan.steps[i].uid # failed_step.uid
                    => /\ Cardinality(PositionsOf(plan', plan.steps[i].uid)) = 1
                       /\ \E k \in 1..Len(plan'.steps) : plan'.steps[k] = plan.steps[i]
       ]_vars

\* a revised plan in which the planner's step stands before a step of the
\* first plan that had not run
C12_Witness ==
    /\ Len(plan.replan_history) = 1
    /\ \E i \in 1..(Len(plan.steps) - 1) :
          /\ plan.steps[i].task = "retry"
          /\ plan.steps[i + 1].task = "task"
          /\ plan.steps[i + 1].status = "pending"

----------------------------------------------------------------------------
(* infra/adk/runtime.py: AdkRuntime.run, one request after another in the  *)
(* same context; infra/adk/tool_runtime_context.py                         *)

MaxRequests == 2
MaxStreamEvents == 2

RequestUser == <<"user_1">>

\* f"plan_adk_{uuid4().hex[:12]}": a fresh atom per request
PlanIds == <<"plan_adk_1", "plan_adk_2", "plan_adk_3", "plan_adk_4">>
PlanIdOf(n) == <<PlanIds[n]>>

\* bind_tool_runtime_context's ToolRuntimeContext
bind_tool_runtime_context(tenant_id, user_id, session_id, plan_id, has_repo) ==
    [bound |-> TRUE, tenant_id |-> tenant_id, user_id |-> user_id,
     session_id |-> session_id, plan_id |-> plan_id, has_memory_repo |-> has_repo]

\* ContextVar.set: the token remembers the value the variable had
TokenOf(old_value) == [set |-> TRUE, old_value |-> old_value]

\* the exits of run and what each one is
RequestExits == {"returned", "raised", "cancelled"}

otherVarsOfRequest ==
    <<runVars, memVars, writers, probe, inflight, last_call, hist, tool_seq, adk, http,
      large>>

Exit(how) == rq' = [rq EXCEPT !.pc = how]

\* the finally clause of run, then the exit
Finally(how) ==
    /\ Exit(how)
    /\ tool_ctx' = rq.tool_context_token.old_value
    /\ ctx' = IF rq.trace_token.set THEN rq.trace_token.old_value ELSE ctx

\* run is called: await self._ensure_session(request), which raises, is
\* cancelled or answers whether the session is new
EnsureSession(outcome, has_event_repo, is_first_turn, disabled, lookup) ==
    /\ rq.pc \in {"idle"} \cup RequestExits
    /\ rq.n < MaxRequests
    /\ rq' = [pc |-> IF outcome = "ok" THEN "ensured" ELSE outcome,
              n |-> rq.n + 1, has_event_repo |-> has_event_repo,
              is_first_turn |-> is_first_turn, memory_disabled_by_user |-> disabled,
              requests_memory_lookup |-> lookup,
              tool_context_token |-> NoToolToken, trace_token |-> NoTraceToken,
              seen |-> 0]
    /\ UNCHANGED <<tool_ctx, ctx, otherVarsOfRequest>>

\* tool_context_token = bind_tool_runtime_context(...)
BindToolRuntime ==
    /\ rq.pc = "ensured"
    /\ tool_ctx' = bind_tool_runtime_context(RequestTenant, RequestUser, RequestSession,
                                             PlanIdOf(rq.n), TRUE)
    /\ rq' = [rq EXCEPT !.pc = "tool_bound", !.tool_context_token = TokenOf(tool_ctx)]
    /\ UNCHANGED <<ctx, otherVarsOfRequest>>

\* if self.event_repo is not None: trace_token = bind_trace_context(...);
\* the statement stands before the try and may raise
BindTrace(raises) ==
    /\ rq.pc = "tool_bound"
    /\ IF ~rq.has_event_repo
       THEN /\ ~raises
            /\ rq' = [rq EXCEPT !.pc = "trace_bound"]
            /\ UNCHANGED ctx
       ELSE IF raises
       THEN /\ Exit("raised")
            /\ UNCHANGED ctx
       ELSE /\ ctx' = RequestContext(rq.is_first_turn, rq.memory_disabled_by_user,
                                     rq.requests_memory_lookup)
            /\ rq' = [rq EXCEPT !.pc = "trace_bound", !.trace_token = TokenOf(ctx)]
    /\ UNCHANGED <<tool_ctx, otherVarsOfRequest>>

\* events = self.runner.run_async(...): the statement stands before the try
StartStream(raises) ==
    /\ rq.pc = "trace_bound"
    /\ IF raises THEN Exit("raised") ELSE rq' = [rq EXCEPT !.pc = "streaming"]
    /\ UNCHANGED <<tool_ctx, ctx, otherVarsOfRequest>>

\* one round of `async for event in events` with _mirror_adk_event: the
\* next event is consumed and mirrored, or the round raises or is cancelled
ConsumeEvent(outcome) ==
    /\ rq.pc = "streaming"
    /\ rq.seen < MaxStreamEvents
    /\ IF outcome = "ok"
       THEN /\ rq' = [rq EXCEPT !.seen = @ + 1]
            /\ UNCHANGED <<tool_ctx, ctx>>
       ELSE Finally(outcome)
    /\ UNCHANGED otherVarsOfRequest

\* the stream ends: the response is built, _index_session_in_memory is
\* awaited and run returns, unless that raises or is cancelled
FinishStream(outcome) ==
    /\ rq.pc = "streaming"
    /\ Finally(outcome)
    /\ UNCHANGED otherVarsOfRequest

RequestInit ==
    /\ InitRunIdle /\ InitMem /\ InitProbe /\ InitPolicyIdle /\ InitRequestIdle

NextRequest ==
    \/ \E outcome \in {"ok", "raised", "cancelled"},
          has_event_repo \in BOOLEAN, is_first_turn \in BOOLEAN,
          disabled \in BOOLEAN, lookup \in BOOLEAN :
          EnsureSession(outcome, has_event_repo, is_first_turn, disabled, lookup)
    \/ BindToolRuntime
    \/ \E raises \in BOOLEAN : BindTrace(raises)
    \/ \E raises \in BOOLEAN : StartStream(raises)
    \/ \E outcome \in {"ok", "raised", "cancelled"} : ConsumeEvent(outcome)
    \/ \E outcome \in RequestExits : FinishStream(outcome)

SpecRequest == RequestInit /\ [][NextRequest]_vars

----------------------------------------------------------------------------
(* C13 *)

RunFinished == rq.pc \in RequestExits

\* C13: for every request handled by run, on every exit path (normal
\* return, an exception raised while consuming or mirroring the event
\* stream, an exception raised while starting the stream or binding a
\* context, or cancellation) both the trace context and the tool-runtime
\* context are unset again once run has finished.
C13_ContextsUnset ==
    RunFinished => ~ctx.bound /\ ~tool_ctx.bound

----------------------------------------------------------------------------
(* infra/adk/tool_memory.py: save_user_memory / save_action_memory over    *)
(* the in-memory store; texts are sequences of characters                  *)

MaxSaves == 2

SaveFields == <<"domain", "memory_text">>

\* a JSON value of a memory payload: kind and, for a string, its characters
NoValue == [kind |-> "absent", chars |-> <<>>]
Str(chars) == [kind |-> "str", chars |-> chars]
Int7 == [kind |-> "int", chars |-> <<"7">>]
Null == [kind |-> "null", chars |-> <<>>]

\* json.loads(memory_json) when it is an object: the fields it has, and
\* which of the two came first in the document
Payloads ==
    {[memory_text |-> t, domain |-> d, text_first |-> o] :
        t \in {NoValue, Str(<<"a">>), Str(<<"A">>), Str(<<" ">>),
               Str(<<"a", "\n", "a">>), Int7, Null},
        d \in {NoValue, Str(<<"b">>)},
        o \in BOOLEAN}

\* a payload as the dict it is: the order of absent fields is no part of it
Canonical(p) ==
    IF p.memory_text = NoValue \/ p.domain = NoValue
    THEN [p EXCEPT !.text_first = FALSE] ELSE p

\* memory_json that is not a JSON object: _parse_json_object returns None
NoPayload == [memory_text |-> NoValue, domain |-> NoValue, text_first |-> TRUE]

MemoryJsons == {Canonical(p) : p \in Payloads} \cup {NoPayload}

FieldChars(f) ==
    IF f = "domain" THEN <<"d", "o", "m", "a", "i", "n">>
    ELSE <<"m", "e", "m", "o", "r", "y", "_", "t", "e", "x", "t">>

RECURSIVE Concat(_)
Concat(parts) == IF parts = <<>> THEN <<>> ELSE Head(parts) \o Concat(Tail(parts))

RECURSIVE Join(_, _)
Join(parts, sep) ==
    IF parts = <<>> THEN <<>>
    ELSE IF Len(parts) = 1 THEN parts[1]
    ELSE parts[1] \o sep \o Join(Tail(parts), sep)

\* json.dumps and repr both write a newline as backslash n
Escaped(chars) ==
    Concat([i \in 1..Len(chars) |-> IF chars[i] = "\n" THEN <<"\\", "n">> ELSE <<chars[i]>>])

\* json.dumps of a value
JsonValue(v) ==
    CASE v.kind = "str" -> <<"\"">> \o Escaped(v.chars) \o <<"\"">>
      [] v.kind = "null" -> <<"n", "u", "l", "l">>
      [] OTHER -> v.chars

\* repr of a value
ReprValue(v) ==
    CASE v.kind = "str" -> <<"'">> \o Escaped(v.chars) \o <<"'">>
      [] v.kind = "null" -> <<"N", "o", "n", "e">>
      [] OTHER -> v.chars

\* the fields a payload has, sorted by name / in document order
SortedKeys(p) == SelectSeq(SaveFields, LAMBDA f : p[f] # NoValue)
KeysInOrder(p) ==
    SelectSeq(IF p.text_first THEN <<"memory_text", "domain">> ELSE SaveFields,
              LAMBDA f : p[f] # NoValue)

\* json.dumps(memory, sort_keys=True, separators=(",", ":"), ensure_ascii=False)
_memory_fingerprint(p) ==
    LET keys == SortedKeys(p) IN
    <<"{">> \o Join([i \in 1..Len(keys) |->
                        JsonValue(Str(FieldChars(keys[i]))) \o <<":">> \o JsonValue(p[keys[i]])],
                    <<",">>) \o <<"}">>

\* f"{value}" of a dict: its repr
ReprOf(p) ==
    LET keys == KeysInOrder(p) IN
    <<"{">> \o Join([i \in 1..Len(keys) |->
                        ReprValue(Str(FieldChars(keys[i]))) \o <<":", " ">> \o
                        ReprValue(p[keys[i]])],
                    <<",", " ">>) \o <<"}">>

\* str.lower()
LowerText(text) ==
    [i \in 1..Len(text) |-> CASE text[i] = "A" -> "a" [] text[i] = "N" -> "n"
                              [] OTHER -> text[i]]

Whitespace == {" ", "\n"}

\* str.strip()
RECURSIVE StripLeft(_)
StripLeft(text) ==
    IF text # <<>> /\ Head(text) \in Whitespace THEN StripLeft(Tail(text)) ELSE text

RECURSIVE StripRight(_)
StripRight(text) ==
    IF text # <<>> /\ text[Len(text)] \in Whitespace
    THEN StripRight(SubSeq(text, 1, Len(text) - 1)) ELSE text

Strip(text) == StripRight(StripLeft(text))

\* the text of an identifier: its atoms joined by ":"
IdText(id) == Join([i \in 1..Len(id) |-> <<id[i]>>], <<":">>)

\* a sample value of the payload value's Python type
SampleOf(v) ==
    CASE v.kind = "str" -> "s_text"
      [] v.kind = "int" -> "i_7"
      [] OTHER -> "n_none"

_infer_type(v) == IF v.kind = "int" THEN "integer" ELSE "string"

\* {field: _infer_type(value) for field, value in data.items()}
_derive_return_spec(p) ==
    [f \in {"domain", "memory_text"} |-> IF p[f] = NoValue THEN Absent ELSE _infer_type(p[f])]

\* the store's contract gate on a payload and its derived spec
PayloadMatchesSpec(p, shape) ==
    \A f \in {"domain", "memory_text"} :
        shape[f] # Absent =>
            /\ p[f] # NoValue
            /\ _matches_expected_type(SampleOf(p[f]), shape[f])

Min(a, b) == IF a <= b THEN a ELSE b

\* top_k=10 of _find_duplicate_memory
DuplicateTopK == 10

RecordAt(data, nkey) == CHOOSE r \in data : r.key = nkey

\* variant: a search that skips the tenant test
search_any_tenant(data, order, tenant_id, session_id, query_text, scope, top_k) ==
    LET lowered_query == Strip(LowerText(query_text))
        haystack(r) == LowerText(IdText(r.label) \o <<" ">> \o ReprOf(r.value))
        hits == SelectSeq(order, LAMBDA k :
                    LET r == RecordAt(data, k) IN
                    /\ r.scope = scope
                    /\ (scope = "session" => r.session_id = session_id)
                    /\ (lowered_query # <<>> => Contains(haystack(r), lowered_query)))
    IN [i \in 1..Min(top_k, Len(hits)) |->
           [namespaced_key |-> hits[i], value |-> RecordAt(data, hits[i]).value]]

search(data, order, tenant_id, session_id, query_text, scope, top_k) ==
    LET lowered_query == Strip(LowerText(query_text))
        haystack(r) == LowerText(IdText(r.label) \o <<" ">> \o ReprOf(r.value))
        hits == SelectSeq(order, LAMBDA k :
                    LET r == RecordAt(data, k) IN
                    /\ r.tenant_id = tenant_id
                    /\ r.scope = scope
                    /\ (scope = "session" => r.session_id = session_id)
                    /\ (lowered_query # <<>> => Contains(haystack(r), lowered_query)))
    IN [i \in 1..Min(top_k, Len(hits)) |->
           [namespaced_key |-> hits[i], value |-> RecordAt(data, hits[i]).value]]

\* the key of the first candidate with the payload's fingerprint, NoKey
\* when there is none
_find_duplicate_memory(data, order, context, p, scope) ==
    LET query_text ==
            IF p.memory_text.kind = "str" /\ Strip(p.memory_text.chars) # <<>>
            THEN p.memory_text.chars
            ELSE _memory_fingerprint(p)
        candidates == search(data, order, context.tenant_id, context.session_id,
                             query_text, scope, DuplicateTopK)
        target_fp == _memory_fingerprint(p)
        same == SelectSeq(candidates, LAMBDA c : _memory_fingerprint(c.value) = target_fp)
    IN IF same = <<>> THEN NoKey ELSE same[1].namespaced_key

UuidHex == <<"u1", "u2", "u3", "u4">>

\* f"{plan_id}:{uuid4().hex[:8]}"
_new_task_id(plan_id, drawn) == plan_id \o <<UuidHex[drawn + 1]>>

SaveTools == {"save_user_memory", "save_action_memory"}

SaveKeys == {<<"k">>, <<"a">>, <<"k", "z">>}

ToolResult(tool, key, p, status, reason, nkey, raised) ==
    [op |-> tool, key |-> key, payload |-> p, status |-> status, reason |-> reason,
     namespaced_key |-> nkey, raised |-> raised]

otherVarsOfSave == <<runVars, writers, policyVars, rq, tool_ctx, adk, http, large>>

\* save_user_memory(key, memory_json) / save_action_memory(key, memory_json)
\* with return_spec_json = None, from the call to its return or raise
SaveMemory(tool, key, p) ==
    LET scope == IF tool = "save_user_memory" THEN "user" ELSE "session"
        duplicate == _find_duplicate_memory(mem_data, mem_order, tool_ctx, p, scope)
        effective_spec == _derive_return_spec(p)
        task_id == _new_task_id(tool_ctx.plan_id, tool_seq)
        nkey == _build_namespaced_key(tool_ctx.tenant_id, tool_ctx.session_id, task_id, key)
        acq == AcquireIteration(mem_locks, nkey, task_id, mono, mono + LockWaitTimeout)
    IN
    /\ rq.pc = "streaming"
    /\ tool_seq < MaxSaves
    /\ IF ~tool_ctx.bound \/ ~tool_ctx.has_memory_repo
       THEN /\ probe' = ToolResult(tool, key, p, "not_configured",
                                   "memory_repository_not_configured", NoKey, None)
            /\ UNCHANGED <<memVars, tool_seq>>
       ELSE IF p = NoPayload
       THEN /\ probe' = ToolResult(tool, key, p, "failed", "invalid_memory_json", NoKey, None)
            /\ UNCHANGED <<memVars, tool_seq>>
       ELSE IF duplicate # NoKey
       THEN /\ probe' = ToolResult(tool, key, p, "duplicate_skipped",
                                   "similar_memory_exists", duplicate, None)
            /\ UNCHANGED <<memVars, tool_seq>>
       ELSE \* context.memory_repo.write(...)
            /\ tool_seq' = tool_seq + 1
            /\ IF HasColon(key)
               THEN /\ probe' = ToolResult(tool, key, p, None, None, NoKey, "ValueError")
                    /\ UNCHANGED memVars
               ELSE IF ~PayloadMatchesSpec(p, effective_spec)
               THEN /\ probe' = ToolResult(tool, key, p, None, None, NoKey,
                                           "ContractViolationError")
                    /\ UNCHANGED memVars
               ELSE IF acq.outcome # "acquired"
               THEN /\ probe' = ToolResult(tool, key, p, None, None, NoKey, "MemoryLockError")
                    /\ mem_locks' = acq.locks
                    /\ UNCHANGED <<mem_data, mem_order, mono>>
               ELSE /\ mem_locks' = acq.locks
                    /\ mem_data' = StoreRecord(mem_data, nkey, tool_ctx.tenant_id,
                                               tool_ctx.session_id, task_id, key, p,
                                               effective_spec, scope)
                    /\ mem_order' = InsertKey(mem_order, nkey)
                    /\ probe' = ToolResult(tool, key, p, "ok", None, nkey, None)
                    /\ UNCHANGED mono
    /\ UNCHANGED otherVarsOfSave

\* a request whose stream is running, its tool-runtime context bound by run
SaveInit ==
    /\ InitRunIdle /\ InitMem /\ InitProbe /\ InitPolicyIdle
    /\ tool_seq = 0
    /\ adk = InitAdk
    /\ http = <<>>
    /\ large = InitLarge
    /\ \E has_repo \in BOOLEAN :
          tool_ctx = bind_tool_runtime_context(RequestTenant, RequestUser, RequestSession,
                                               PlanIdOf(1), has_repo)
    /\ rq = [IdleRequest EXCEPT !.pc = "streaming", !.n = 1,
                                !.tool_context_token = TokenOf(NoToolContext)]

NextSave ==
    \E tool \in SaveTools, key \in SaveKeys, p \in MemoryJsons : SaveMemory(tool, key, p)

SpecSave == SaveInit /\ [][NextSave]_vars

----------------------------------------------------------------------------
(* C14, C15 *)

\* a step in which save_user_memory or save_action_memory ran
SaveRuns == probe' # probe /\ probe'.op \in SaveTools

ScopeOf(tool) == IF tool = "save_user_memory" THEN "user" ELSE "session"

\* the stored records of the caller's tenant and the tool's scope whose
\* canonical fingerprint equals the payload's
HeldDuplicates(tool, p) ==
    {r \in mem_data : /\ r.tenant_id = tool_ctx.tenant_id
                      /\ r.scope = ScopeOf(tool)
                      /\ _memory_fingerprint(r.value) = _memory_fingerprint(p)}

\* C14: save_user_memory and save_action_memory, when the store already
\* holds a record (same tenant and scope) whose canonical JSON fingerprint
\* equals the new payload's, perform no write and return status
\* duplicate_skipped together with that existing record's namespaced_key.
C14_DuplicateSkipped ==
    [][(/\ SaveRuns
        /\ tool_ctx.bound /\ tool_ctx.has_memory_repo
        /\ probe'.payload # NoPayload
        /\ HeldDuplicates(probe'.op, probe'.payload) # {})
       => /\ mem_data' = mem_data
          /\ probe'.status = "duplicate_skipped"
          /\ \E r \in HeldDuplicates(probe'.op, probe'.payload) :
                probe'.namespaced_key = r.key
      ]_vars

\* C15: calling save_user_memory (or save_action_memory) twice in
\* succession with the same key and the same payload against the in-memory
\* store leaves exactly one stored record: the first call returns ok and
\* the second returns duplicate_skipped with the first call's
\* namespaced_key, for every JSON-object payload, with or without a
\* memory_text field, whatever else the store holds.
C15_SecondSaveSkipped ==
    [][(/\ SaveRuns
        /\ probe.op = probe'.op
        /\ probe.key = probe'.key
        /\ probe.payload = probe'.payload
        /\ probe.status = "ok")
       => /\ probe'.status = "duplicate_skipped"
          /\ probe'.namespaced_key = probe.namespaced_key
          /\ mem_data' = mem_data
      ]_vars

----------------------------------------------------------------------------
(* C16 *)

\* tenant_id:session_id:task_id:label of the write the step made
StatedKey(w, label) ==
    WriterIds[w].tenant_id \o WriterIds[w].session_id \o WriterIds[w].task_id \o label

\* C16: every successful write stores its record under, and returns, the
\* key tenant_id:session_id:task_id:label; a write whose label contains ':'
\* is rejected with an error and leaves the stored records and the lock
\* table unchanged.
C16_KeyFormat ==
    [][WriteRuns =>
        LET w == probe'.writer
            label == probe'.key
        IN /\ probe'.outcome = "ok" =>
                /\ probe'.returned = StatedKey(w, label)
                /\ \E r \in mem_data' :
                      /\ r.key = StatedKey(w, label)
                      /\ r.label = label
                      /\ r.value = probe'.value
                      /\ r.tenant_id = WriterIds[w].tenant_id
                      /\ r.session_id = WriterIds[w].session_id
                      /\ r.task_id = WriterIds[w].task_id
                /\ {r \in mem_data' : r.key # StatedKey(w, label)}
                      = {r \in mem_data : r.key # StatedKey(w, label)}
           /\ HasColon(label) =>
                /\ probe'.outcome = "label_error"
                /\ mem_data' = mem_data
                /\ mem_locks' = mem_locks
       ]_vars

\* a label with ':' has been rejected by a store that holds a record and a lock
C16_Witness ==
    /\ probe.op = "write"
    /\ probe.outcome = "label_error"
    /\ HasColon(probe.key)
    /\ mem_data # {}
    /\ mem_locks # {}

----------------------------------------------------------------------------
(* C17, C18 *)

\* a step in which before_tool_callback is called for this tool
ToolAttempt(tool) == inflight = NoCall /\ last_call' # last_call /\ last_call'.tool = tool

\* the call is not executed: nothing is in flight afterwards
NotExecuted == inflight' = NoCall

\* a memory tool called by an agent other than the memory sub-agent
ForeignMemoryToolAttempt ==
    /\ \E tool \in _MEMORY_TOOL_NAMES : ToolAttempt(tool)
    /\ last_call'.agent # "memory_subagent_c"

TransferFromTo(from_agents, to_agents) ==
    /\ ToolAttempt("transfer_to_agent")
    /\ last_call'.agent \in from_agents
    /\ last_call'.args.agent_name \in to_agents

C18_MissingReturnSpecBlocked ==
    [][(ToolAttempt("write_memory") /\ ~last_call'.args.has_return_spec)
         => /\ NotExecuted
            /\ last_call'.result.status = "blocked"
            /\ last_call'.result.reason = "contract_violation: missing return_spec"
      ]_vars

----------------------------------------------------------------------------
(* C19 *)

\* the step is read(nkey, release_lock=True)
ReleasingRead(nkey) ==
    /\ probe'.op = "read"
    /\ probe'.release_lock
    /\ KeyOf(probe'.writer, probe'.key) = nkey
    /\ mem_locks' = ReleaseLock(mem_locks, nkey)

StillHeldBy(owner, nkey) ==
    \E l \in LocksOn(mem_locks', nkey) : l.owner_task_id = owner

\* C19: after a successful write the key's lock is held by the writer's
\* task_id and stays so across reads made without release_lock; the lock
\* ends only through read(key, release_lock=true) or TTL expiry, and only
\* after one of those can a write by a different task_id succeed on that
\* key.
C19_LockLifetime ==
    [][/\ (WriteRuns /\ probe'.outcome = "ok") =>
             LET w == probe'.writer
                 nkey == KeyOf(w, probe'.key)
             IN /\ StillHeldBy(WriterIds[w].task_id, nkey)
                /\ \A l \in LocksOn(mem_locks, nkey) :
                      l.owner_task_id # WriterIds[w].task_id => l.expires_at <= mono
       /\ \A l \in mem_locks :
             \/ StillHeldBy(l.owner_task_id, l.key)
             \/ ReleasingRead(l.key)
             \/ l.expires_at <= mono
       /\ (probe'.op = "read" /\ ~probe'.release_lock) => mem_locks' = mem_locks
      ]_vars

\* a stored key has been read without release_lock and its writer's lock
\* is still held and unexpired
C19_Witness ==
    /\ probe.op = "read" /\ ~probe.release_lock /\ probe.outcome = "ok"
    /\ \E l \in LocksOn(mem_locks, KeyOf(probe.writer, probe.key)) :
          /\ l.expires_at > mono
          /\ \E r \in mem_data : r.key = l.key /\ r.task_id = l.owner_task_id
    /\ mono > 0

----------------------------------------------------------------------------
(* C20 *)

\* C20: whenever replan_or_fail returns or raises (the replan succeeded,
\* the budget is exhausted, planner.replan raised or the revised steps
\* failed validation) plan.replan_count equals the length of
\* plan.replan_history.
C20_CountMatchesHistory ==
    [][Triggered(events') > Triggered(events) \/ failure'.kind = "ReplanLimitReachedError"
          => plan'.replan_count = Len(plan'.replan_history)]_vars

----------------------------------------------------------------------------
(* C21 *)

\* C21: whenever plan.status = complete, plan.completed_at is set and
\* plan.steps holds at least one step, every one of them with status
\* complete: no pending, running or failed step remains.
C21_CompletePlan ==
    plan.status = "complete"
        => /\ plan.completed_at # NoTime
           /\ Len(plan.steps) >= 1
           /\ \A i \in DOMAIN plan.steps : plan.steps[i].status = "complete"

\* a plan completed after a replan: a step of the revised list was resumed
\* at next_pending_step_index and the loop ran off the end
C21_Witness ==
    /\ plan.status = "complete"
    /\ pc = "done"
    /\ Len(plan.replan_history) >= 1
    /\ Len(plan.steps) >= 2

----------------------------------------------------------------------------
(* C22 *)

\* memory_repo.write was invoked for the running step's output and raised
\* ContractViolationError or MemoryLockError: nothing was stored and the
\* coroutine is not asleep waiting for the lock
PersistWriteRaises ==
    /\ pc = "executing"
    /\ write_count' > write_count
    /\ mem_data' = mem_data
    /\ pc' # "lock_wait"
    /\ failure'.kind # "ValueError"

ReplanManagerInvoked ==
    \/ Triggered(events') > Triggered(events)
    \/ replan_calls' > replan_calls
    \/ failure'.kind = "ReplanLimitReachedError"

\* C22: if the memory store's write raises contract_violation or
\* memory_lock_timeout while a step's output is persisted, the step
\* becomes failed and the replan manager is invoked for it.
C22_WriteErrorFeedsReplan ==
    [][PersistWriteRaises => StepFailsNow /\ ReplanManagerInvoked]_vars

----------------------------------------------------------------------------
(* C23 *)

SpawnsSubagent(steps) ==
    \E i \in DOMAIN steps : \E j \in DOMAIN steps[i].skills :
        HasForbiddenToken(steps[i].skills[j])

\* the verdict the statement gives for a step list
StatedVerdict(steps) ==
    CASE steps = <<>> -> "planner_returned_empty_plan"
      [] steps # <<>> /\ Len(steps) > MaxSteps -> "plan_infeasible_over_max_steps"
      [] steps # <<>> /\ Len(steps) <= MaxSteps /\ SpawnsSubagent(steps)
            -> "subagent_spawning_not_allowed"
      [] OTHER -> "ok"

InitialPlanRejected(reason) ==
    /\ pc = "raised"
    /\ failure.kind = "PlanValidationError"
    /\ failure.reason = reason
    /\ failure.response.status = "failed"
    /\ failure.response.reason = reason

\* C23: validate_plan_steps rejects an empty list, a list longer than
\* max_steps and a list with a forbidden spawn token in a skill name, in
\* that order and with the stated reasons, and accepts every other list;
\* when the initial plan is rejected no plan is saved, no plan.persisted
\* event is appended and no step is executed.
C23_PlanValidation ==
    planner_output.returned =>
        IF StatedVerdict(planner_output.steps) # "ok"
        THEN /\ InitialPlanRejected(StatedVerdict(planner_output.steps))
             /\ plan = NoPlan /\ saved = NoPlan
             /\ events = <<>>
             /\ task_seq = 0 /\ exec_returned = {} /\ write_count = 0
        ELSE /\ saved # NoPlan
             /\ plan.status # "pending"
             /\ events # <<>> /\ events[1].type = "plan.persisted"

\* a list that is both too long and asks to spawn a sub-agent was rejected
\* for its length
C23_Witness ==
    /\ planner_output.returned
    /\ Len(planner_output.steps) > MaxSteps
    /\ SpawnsSubagent(planner_output.steps)
    /\ InitialPlanRejected("plan_infeasible_over_max_steps")
    /\ saved = NoPlan /\ events = <<>>

----------------------------------------------------------------------------
(* api/main.py run_agent and infra/adk/runtime.py: HTTP requests handled   *)
(* concurrently on the one AdkRuntimeScaffold of the container             *)

MaxHandlers == 2        \* HTTP requests handled in one behaviour

\* request.headers of a request; the resolved endpoint's URL and auth
\* headers are rendered from them
HeaderSets == {"headers_a", "headers_b"}

\* (user_id, session_id) pairs of the requests
SessionIds == {"session_1", "session_2"}

\* _resolve_planner_endpoint(request_headers)
_resolve_planner_endpoint(request_headers) == [headers |-> request_headers]

\* _rebuild_runtime_graph: toolsets and agents built from the resolved
\* endpoints, a new InMemoryRunner with its own, empty session service
_rebuild_runtime_graph(a) ==
    [a EXCEPT !.runners = Append(@, [endpoint |-> a._resolved_planner_endpoint,
                                     sessions |-> {}]),
              !.runner = Len(a.runners) + 1]

configure_mcp_for_request(a, request_headers) ==
    _rebuild_runtime_graph(
        [a EXCEPT !._resolved_planner_endpoint = _resolve_planner_endpoint(request_headers)])

\* a request that has arrived and is not handled yet
NewHandler(headers, session_id) ==
    [pc |-> "new", headers |-> headers, session_id |-> session_id, later |-> FALSE,
     found |-> FALSE, is_first_turn |-> FALSE, runner |-> 0,
     planner_expected_tools |-> NoEndpoint, index_runner |-> 0, indexed |-> FALSE]

otherVarsOfHttp ==
    <<runVars, memVars, writers, probe, policyVars, rq, tool_ctx, tool_seq, large>>

\* run_agent up to its first suspension: configure_mcp_for_request, then
\* run() as far as the awaited session_service.get_session
RunAgent(i) ==
    /\ http[i].pc = "new"
    /\ adk' = configure_mcp_for_request(adk, http[i].headers)
    /\ http' = [http EXCEPT
                  ![i].pc = "get_session",
                  ![i].later = \E j \in DOMAIN http :
                                   /\ http[j].pc = "done"
                                   /\ http[j].session_id = http[i].session_id,
                  ![i].found = http[i].session_id \in adk'.runners[adk'.runner].sessions]
    /\ UNCHANGED otherVarsOfHttp

\* run() from the code after the stream has been requested: bind the
\* contexts with planner_expected_tools of the endpoint resolved now, and
\* self.runner.run_async
StreamFrom(h, is_first_turn) ==
    [h EXCEPT !.pc = "streaming",
              !.is_first_turn = is_first_turn,
              !.planner_expected_tools = adk._resolved_planner_endpoint,
              !.runner = adk.runner]

\* _ensure_session resumes from get_session: return False, or await
\* self.session_service.create_session
GetSessionReturns(i) ==
    /\ http[i].pc = "get_session"
    /\ IF http[i].found
       THEN /\ http' = [http EXCEPT ![i] = StreamFrom(http[i], FALSE)]
            /\ UNCHANGED adk
       ELSE /\ adk' = [adk EXCEPT !.runners[adk.runner].sessions =
                                       @ \cup {http[i].session_id},
                                  !.create_calls[http[i].session_id] = @ + 1]
            /\ http' = [http EXCEPT ![i].pc = "create_session"]
    /\ UNCHANGED otherVarsOfHttp

\* _ensure_session resumes from create_session: return True
CreateSessionReturns(i) ==
    /\ http[i].pc = "create_session"
    /\ http' = [http EXCEPT ![i] = StreamFrom(http[i], TRUE)]
    /\ UNCHANGED <<adk, otherVarsOfHttp>>

\* the stream ends: _index_session_in_memory looks the session up in
\* self.session_service and adds it to self.memory_service, the contexts
\* are reset and run_agent answers
RunReturns(i) ==
    /\ http[i].pc = "streaming"
    /\ http' = [http EXCEPT
                  ![i].pc = "done",
                  ![i].index_runner = adk.runner,
                  ![i].indexed = http[i].session_id \in adk.runners[adk.runner].sessions]
    /\ UNCHANGED <<adk, otherVarsOfHttp>>

HttpInit ==
    /\ InitRunIdle /\ InitMem /\ InitProbe /\ InitPolicyIdle
    /\ rq = IdleRequest /\ tool_ctx = NoToolContext /\ tool_seq = 0
    /\ large = InitLarge
    /\ adk = InitAdk
    /\ http \in [1..MaxHandlers -> {NewHandler(h, s) : h \in HeaderSets, s \in SessionIds}]

NextHttp ==
    \/ \E i \in DOMAIN http : RunAgent(i)
    \/ \E i \in DOMAIN http : GetSessionReturns(i)
    \/ \E i \in DOMAIN http : CreateSessionReturns(i)
    \/ \E i \in DOMAIN http : RunReturns(i)

SpecHttp == HttpInit /\ [][NextHttp]_vars

----------------------------------------------------------------------------
(* C24 *)

\* _ensure_session has returned to run()
SessionEnsured(i) == http[i].pc \in {"streaming", "done"}

\* C24: is_first_turn is true exactly for the first request of a (user,
\* session) pair: the session is created at most once, and a later request
\* on the same session, handled as run_agent handles it (configure, then
\* run), finds the session and gets is_first_turn = false.
C24_FirstTurnOnce ==
    \A i \in DOMAIN http :
        SessionEnsured(i) =>
            /\ http[i].later =>
                  /\ ~http[i].is_first_turn
                  /\ adk.create_calls[http[i].session_id] = 1
            /\ (\A j \in DOMAIN http : j # i => http[j].session_id # http[i].session_id)
                  => http[i].is_first_turn

----------------------------------------------------------------------------
(* C25 *)

\* the headers from which the agent graph of runner r was built
GraphHeaders(r) == adk.runners[r].endpoint.headers

\* no other request of the behaviour is on the session of request i
OnOwnSession(i) == \A j \in DOMAIN http : j # i => http[j].session_id # http[i].session_id

\* C25: concurrent requests (of different sessions) share only the
\* repositories: under every interleaving of two requests'
\* configure_mcp_for_request and run, a request streams from the agent
\* graph built from its own headers, binds the planner tools of the
\* endpoint resolved from its own headers, and ends on the runner (session
\* and memory service) it streamed from.
C25_RequestsIsolated ==
    \A i \in DOMAIN http :
        /\ SessionEnsured(i) /\ OnOwnSession(i) =>
              /\ GraphHeaders(http[i].runner) = http[i].headers
              /\ http[i].planner_expected_tools.headers = http[i].headers
        /\ http[i].pc = "done" /\ OnOwnSession(i) =>
              /\ http[i].index_runner = http[i].runner
              /\ http[i].indexed

----------------------------------------------------------------------------
(* infra/adk/tool_large_response.py                                        *)

MaxLargeCalls == 2      \* calls of handle_large_response in one behaviour

\* response texts: len(response.encode("utf-8")) and what json.loads gives
Responses ==
    {[bytes |-> 1, object |-> TRUE, keys |-> {"a", "b"}],
     [bytes |-> 3, object |-> TRUE, keys |-> {"a", "b"}],
     [bytes |-> 3, object |-> FALSE, keys |-> {}]}

\* threshold_bytes and max_output_bytes arguments
ThresholdsBytes == {2}
OutputLimits == {2}

\* list(return_spec.keys())
RequiredFields == {{}, {"a"}, {"a", "c"}}

\* extraction_script arguments, named by what the script does
ScriptTexts ==
    {"result = {'a': 1}", "result = {'a': 1, 'b': 2}", "result = [1]", "result = {1, 2}",
     "result = {'a': 'x' * 9}", "result = 1 / 0", "import os", "x = 1",
     "while True: pass", "raise_base_exception", "result = '\\ud800'"}

Script(text) == [text |-> text, fields |-> {}]

\* _default_extraction_script(required_fields)
_default_extraction_script(required_fields) ==
    [text |-> "payload = read_json_file(file_id); result = {...}", fields |-> required_fields]

\* sha256(script.encode("utf-8")).hexdigest(): one digest per script text
Sha256(script) == [sha256_of |-> script]

\* script.encode("utf-8") raises UnicodeEncodeError on a lone surrogate
Unencodable(script) == script.text = "result = '\\ud800'"

Dict(keys, bytes) == [exists |-> TRUE, is_dict |-> TRUE, keys |-> keys, bytes |-> bytes]
NonDict(bytes) == [exists |-> TRUE, is_dict |-> FALSE, keys |-> {}, bytes |-> bytes]

\* what exec(compiled, safe_globals, local_vars) leaves in the worker:
\* ended is "result" (local_vars filled), "exception" (an Exception was
\* raised, by _validate_script too), "exit" (the process ended without an
\* answer) or "never" (the script does not end)
RunScript(script, response) ==
    CASE script.text = "payload = read_json_file(file_id); result = {...}" ->
             IF response.object
             THEN [ended |-> "result", json |-> TRUE, result |-> Dict(script.fields, 1)]
             ELSE [ended |-> "exception", json |-> TRUE, result |-> NoResult]
      [] script.text = "result = {'a': 1}" ->
             [ended |-> "result", json |-> TRUE, result |-> Dict({"a"}, 1)]
      [] script.text = "result = {'a': 1, 'b': 2}" ->
             [ended |-> "result", json |-> TRUE, result |-> Dict({"a", "b"}, 1)]
      [] script.text = "result = [1]" ->
             [ended |-> "result", json |-> TRUE, result |-> NonDict(1)]
      [] script.text = "result = {1, 2}" ->
             [ended |-> "result", json |-> FALSE, result |-> NonDict(1)]
      [] script.text = "result = {'a': 'x' * 9}" ->
             [ended |-> "result", json |-> TRUE, result |-> Dict({"a"}, 3)]
      [] script.text = "x = 1" ->
             [ended |-> "result", json |-> TRUE, result |-> NoResult]
      [] script.text = "while True: pass" ->
             [ended |-> "never", json |-> TRUE, result |-> NoResult]
      [] script.text = "raise_base_exception" ->
             [ended |-> "exit", json |-> TRUE, result |-> NoResult]
      [] OTHER -> [ended |-> "exception", json |-> TRUE, result |-> NoResult]

NoAnswer == [put |-> FALSE, status |-> None, reason |-> None, result |-> NoResult]
Failed(reason) == [put |-> TRUE, status |-> "failed", reason |-> reason, result |-> NoResult]

\* _exec_python_worker: what the worker puts on the queue
_exec_python_worker(script, response, max_output_bytes) ==
    LET run == RunScript(script, response) IN
    IF run.ended \in {"never", "exit"} THEN NoAnswer
    ELSE IF run.ended = "exception" THEN Failed("exec_python_error")
    ELSE IF ~run.result.exists THEN Failed("exec_python_missing_result")
    ELSE IF ~run.json THEN Failed("exec_python_error")
    ELSE IF run.result.bytes > max_output_bytes THEN Failed("exec_python_output_too_large")
    ELSE [put |-> TRUE, status |-> "ok", reason |-> None, result |-> run.result]

\* exec_python: the enriched dict, whether it raised, and the event it
\* appended to _AGENT_EVENTS; slow says that join(timeout_seconds) expired
exec_python(script, response, max_output_bytes, slow) ==
    LET answer == _exec_python_worker(script, response, max_output_bytes)
        alive == slow \/ RunScript(script, response).ended = "never"
        result == IF answer.put THEN answer ELSE Failed("exec_python_failed")
    IN IF Unencodable(script)
       THEN [raised |-> TRUE, status |-> None, reason |-> None, result |-> NoResult,
             script_hash |-> NoHash, events |-> <<>>]
       ELSE IF alive
       THEN [raised |-> FALSE, status |-> "failed", reason |-> "exec_python_timeout",
             result |-> NoResult, script_hash |-> Sha256(script), events |-> <<>>]
       ELSE [raised |-> FALSE, status |-> result.status, reason |-> result.reason,
             result |-> result.result, script_hash |-> Sha256(script),
             events |-> IF result.status = "ok"
                        THEN <<[event_type |-> "large_response.exec_python",
                                script_hash |-> Sha256(script),
                                strategy |-> "write_temp_read_lines_exec_python"]>>
                        ELSE <<>>]

\* variant: any dict that has the required keys passes
_matches_required_fields_subset(data, required_fields) ==
    data.is_dict /\ required_fields \subseteq data.keys

_matches_required_fields(data, required_fields) ==
    data.is_dict /\ data.keys = required_fields

_project_direct_response(response, required_fields) ==
    IF ~response.object
    THEN IF Cardinality(required_fields) = 1 THEN Dict(required_fields, response.bytes)
         ELSE Dict({}, 1)
    ELSE Dict(required_fields \cap response.keys, 1)

\* cleanup_temp_file on the state of the module and of the disk
cleanup_temp_file(l, file_id) ==
    [l EXCEPT !.files = @ \ {file_id}, !._TEMP_FILE_REGISTRY = @ \ {file_id}]

otherVarsOfLarge ==
    <<runVars, memVars, writers, probe, policyVars, rq, tool_ctx, tool_seq, adk, http>>

\* one call of handle_large_response, from the size test to its return
\* (or to the exception that leaves it)
HandleLargeResponse(response, required_fields, extraction_script, threshold_bytes, max_output_bytes, slow) ==
    LET file_id == large.calls + 1
        script == IF extraction_script.text \in {None, ""}
                  THEN _default_extraction_script(required_fields)
                  ELSE extraction_script
        execution == exec_python(script, response, max_output_bytes, slow)
        written == [large EXCEPT !.files = @ \cup {file_id},
                                 !._TEMP_FILE_REGISTRY = @ \cup {file_id},
                                 !._AGENT_EVENTS = @ \o execution.events,
                                 !.calls = @ + 1]
        spilled == [NoLargeCall EXCEPT
                      !.made = TRUE,
                      !.strategy = "write_temp_read_lines_exec_python",
                      !.required_fields = required_fields,
                      !.file_id = file_id,
                      !.script_hash = execution.script_hash,
                      !.execution = [status |-> execution.status,
                                     reason |-> execution.reason,
                                     result |-> execution.result]]
    IN
    /\ large.calls < MaxLargeCalls
    /\ large' =
         IF response.bytes < threshold_bytes
         THEN [large EXCEPT
                 !.calls = @ + 1,
                 !.call = [NoLargeCall EXCEPT
                             !.made = TRUE, !.status = "ok", !.strategy = "direct",
                             !.required_fields = required_fields,
                             !.data = _project_direct_response(response, required_fields)]]
         ELSE IF execution.raised
         THEN [written EXCEPT !.call = [spilled EXCEPT !.raised = TRUE]]
         ELSE IF execution.status # "ok"
         THEN [cleanup_temp_file(written, file_id) EXCEPT
                 !.call = [spilled EXCEPT !.status = "failed",
                                          !.reason = IF execution.reason = None
                                                     THEN "exec_python_failed"
                                                     ELSE execution.reason]]
         ELSE IF ~_matches_required_fields(execution.result, required_fields)
         THEN [cleanup_temp_file(written, file_id) EXCEPT
                 !.call = [spilled EXCEPT !.status = "failed",
                                          !.reason = "extraction_contract_violation"]]
         ELSE [cleanup_temp_file(written, file_id) EXCEPT
                 !.call = [spilled EXCEPT !.status = "ok", !.data = execution.result]]
    /\ UNCHANGED otherVarsOfLarge

LargeInit ==
    /\ InitRunIdle /\ InitMem /\ InitProbe /\ InitPolicyIdle
    /\ rq = IdleRequest /\ tool_ctx = NoToolContext /\ tool_seq = 0
    /\ adk = InitAdk /\ http = <<>>
    /\ large = InitLarge

NextLarge ==
    \E response \in Responses, required_fields \in RequiredFields,
       extraction_script \in {Script(t) : t \in ScriptTexts \cup {None, ""}},
       threshold_bytes \in ThresholdsBytes, max_output_bytes \in OutputLimits,
       slow \in BOOLEAN :
        HandleLargeResponse(response, required_fields, extraction_script,
                            threshold_bytes, max_output_bytes, slow)

SpecLarge == LargeInit /\ [][NextLarge]_vars

----------------------------------------------------------------------------
(* C26 *)

SpillStrategy == "write_temp_read_lines_exec_python"

\* the last call took the spill path
Spilled == large.call.made /\ large.call.strategy = SpillStrategy

\* C26: on the spill path the temp file is deleted and removed from the
\* registry when handle_large_response is left, whatever the outcome of
\* the extraction: success, script error, timeout, oversized output,
\* contract violation, or an exception raised while running the script.
C26_TempFileDeleted ==
    Spilled => /\ large.call.file_id \notin large.files
               /\ large.call.file_id \notin large._TEMP_FILE_REGISTRY

----------------------------------------------------------------------------
(* C27 *)

\* exec_python returned status ok: a result was extracted
Extracted == Spilled /\ ~large.call.raised /\ large.call.execution.status = "ok"

\* C27: on the spill path handle_large_response returns status ok only if
\* the extracted result is a dict whose key set equals the required keys
\* of return_spec; an extracted result with a missing key, with an extra
\* key, or that is no dict gives status failed with reason
\* extraction_contract_violation.
C27_ExactKeys ==
    /\ Spilled /\ large.call.status = "ok" =>
          /\ Extracted
          /\ large.call.execution.result.is_dict
          /\ large.call.execution.result.keys = large.call.required_fields
          /\ large.call.data = large.call.execution.result
    /\ Extracted /\ ~(/\ large.call.execution.result.is_dict
                      /\ large.call.execution.result.keys = large.call.required_fields) =>
          /\ large.call.status = "failed"
          /\ large.call.reason = "extraction_contract_violation"

\* a result with every required key and one more was refused
C27_Witness ==
    /\ Extracted
    /\ large.call.execution.result.is_dict
    /\ large.call.required_fields # {}
    /\ large.call.required_fields \subseteq large.call.execution.result.keys
    /\ large.call.required_fields # large.call.execution.result.keys
    /\ large.call.status = "failed"
    /\ large.call.reason = "extraction_contract_violation"

----------------------------------------------------------------------------
(* C28 *)

NewAgentEvents == SubSeq(large'._AGENT_EVENTS, Len(large._AGENT_EVENTS) + 1,
                         Len(large'._AGENT_EVENTS))

\* C28: a large_response.exec_python event with script_hash =
\* sha256(script) is emitted exactly once for each call that returns
\* status ok through the spill strategy, and none for a call that returns
\* status failed or takes the direct path.
C28_EventOnSuccessOnly ==
    [][IF /\ large'.call.strategy = SpillStrategy
          /\ ~large'.call.raised
          /\ large'.call.status = "ok"
       THEN /\ Len(NewAgentEvents) = 1
            /\ NewAgentEvents[1].event_type = "large_response.exec_python"
            /\ NewAgentEvents[1].script_hash = large'.call.script_hash
       ELSE NewAgentEvents = <<>>]_vars


----------------------------------------------------------------------------
(* InMemoryMemoryRepository: writes of several tenants, then search *)

MaxRecords == 3

SearchTenants == {<<"tenant_1">>, <<"tenant_2">>}
SearchSessions == {<<"session_1">>, <<"session_2">>}
SearchScopes == {"session", "user"}
SearchTask == <<"task_01">>
SearchLabels == {<<"k">>, <<"k", "z">>}
SearchPayload == [memory_text |-> Str(<<"a">>), domain |-> NoValue, text_first |-> FALSE]
SearchQueries == {<<"A", " ">>, <<"7">>}
SearchTopK == {-1, 1, 2}

otherVarsOfSearch == <<runVars, writers, policyVars, requestVars>>

\* InMemoryMemoryRepository.write, from the call to its return or raise
MemWrite(tenant_id, session_id, key, scope) ==
    LET value == SearchPayload
        shape == _derive_return_spec(value)
        nkey == _build_namespaced_key(tenant_id, session_id, SearchTask, key)
        acq == AcquireIteration(mem_locks, nkey, SearchTask, mono, mono + LockWaitTimeout)
    IN
    /\ \/ \E i \in 1..Len(mem_order) : mem_order[i] = nkey
       \/ Len(mem_order) < MaxRecords
    /\ IF HasColon(key)
       THEN /\ probe' = [op |-> "write", outcome |-> "label_error"]
            /\ UNCHANGED memVars
       ELSE IF ~PayloadMatchesSpec(value, shape)
       THEN /\ probe' = [op |-> "write", outcome |-> "contract_violation"]
            /\ UNCHANGED memVars
       ELSE IF acq.outcome # "acquired"
       THEN /\ probe' = [op |-> "write", outcome |-> acq.outcome]
            /\ mem_locks' = acq.locks
            /\ UNCHANGED <<mem_data, mem_order, mono>>
       ELSE /\ mem_locks' = acq.locks
            /\ mem_data' = StoreRecord(mem_data, nkey, tenant_id, session_id, SearchTask,
                                       key, value, shape, scope)
            /\ mem_order' = InsertKey(mem_order, nkey)
            /\ probe' = [op |-> "write", outcome |-> "ok"]
            /\ UNCHANGED mono
    /\ UNCHANGED otherVarsOfSearch

\* one call of InMemoryMemoryRepository.search and what it returned
MemSearch(tenant_id, session_id, query_text, scope, top_k) ==
    /\ probe' = [op |-> "search", tenant_id |-> tenant_id, session_id |-> session_id,
                 query_text |-> query_text, scope |-> scope, top_k |-> top_k,
                 results |-> search(mem_data, mem_order, tenant_id, session_id,
                                    query_text, scope, top_k)]
    /\ UNCHANGED <<memVars, otherVarsOfSearch>>

SearchInit == InitRunIdle /\ InitMem /\ InitProbe /\ InitPolicyIdle /\ InitRequestIdle

NextSearch ==
    \/ \E t \in SearchTenants, s \in SearchSessions, key \in SearchLabels,
          scope \in SearchScopes : MemWrite(t, s, key, scope)
    \/ \E t \in SearchTenants, s \in SearchSessions, q \in SearchQueries,
          scope \in SearchScopes, top_k \in SearchTopK : MemSearch(t, s, q, scope, top_k)

SpecSearch == SearchInit /\ [][NextSearch]_vars

----------------------------------------------------------------------------
(* C29 *)

\* the stored record a search result names
Returned(i) == RecordAt(mem_data, probe.results[i].namespaced_key)

\* C29: after any sequence of writes, search returns only records whose
\* tenant_id and scope equal the search arguments and, when scope is
\* session, whose session_id equals the argument; it returns at most top_k
\* records, none when top_k <= 0; a record of another tenant is never
\* returned.
C29_SearchIsolation ==
    probe.op = "search" =>
        /\ \A i \in 1..Len(probe.results) :
              /\ \E r \in mem_data : r.key = probe.results[i].namespaced_key
              /\ Returned(i).tenant_id = probe.tenant_id
              /\ Returned(i).scope = probe.scope
              /\ probe.scope = "session" => Returned(i).session_id = probe.session_id
        /\ probe.top_k <= 0 => probe.results = <<>>
        /\ probe.top_k > 0 => Len(probe.results) <= probe.top_k

\* a search cut to top_k = 1 of two records of its tenant, while a record
\* of the other tenant with the same scope and text is stored
C29_Witness ==
    /\ probe.op = "search"
    /\ probe.top_k = 1
    /\ Len(probe.results) = 1
    /\ Cardinality({r \in mem_data : r.tenant_id = probe.tenant_id
                                     /\ r.scope = probe.scope}) = 2
    /\ \E r \in mem_data : r.tenant_id # probe.tenant_id /\ r.scope = probe.scope


----------------------------------------------------------------------------
(* C30 *)

\* the running step completes in this transition
StepCompletesNow ==
    /\ pc = "executing"
    /\ plan.steps[cur + 1].status = "running"
    /\ \E j \in 1..Len(plan'.steps) :
          /\ plan'.steps[j].uid = plan.steps[cur + 1].uid
          /\ plan'.steps[j].status = "complete"

\* the messages this transition published on the message bus
PublishedNow == SubSeq(bus', Len(bus) + 1, Len(bus'))

\* exactly one lifecycle message, of this topic, for the running step
PublishesOnly(topic) ==
    /\ Len(PublishedNow) = 1
    /\ PublishedNow[1].topic = topic
    /\ PublishedNow[1].step_index = plan.steps[cur + 1].step_index
    /\ PublishedNow[1].task_id = plan.steps[cur + 1].task_id

\* C30: for every step that transitions to failed, by executor failure,
\* insufficient result or contract violation, and whether or not the replan
\* budget is then exhausted, one step.failed lifecycle message carrying that
\* step's index is published on the message bus; for every step that
\* transitions to complete, one step.complete message is published, in step
\* order.
C30_LifecyclePublished ==
    [][/\ StepFailsNow => PublishesOnly("step.failed")
       /\ StepCompletesNow =>
             /\ PublishesOnly("step.complete")
             /\ \A i \in 1..Len(bus) :
                   bus[i].topic = "step.complete" =>
                      \E j \in 1..cur : plan'.steps[j].task_id = bus[i].task_id]_vars


----------------------------------------------------------------------------
(* C31 *)

\* replan_or_fail returned in this transition: the plan was merged
ReplanMerged ==
    /\ pc = "executing"
    /\ pc' = "loop"
    /\ plan'.replan_count = plan.replan_count + 1

\* how many step.started events name this task id
StartedCount(task_id) ==
    Cardinality({i \in DOMAIN events : /\ events[i].type = "step.started"
                                       /\ events[i].task_id = task_id})

\* C31: a step that has reached complete is never executed again: after
\* any replan the loop resumes at the index of the first step whose status
\* is not complete, so each completed step was executed exactly once and
\* the first revised step is the next one executed.
C31_CompletedNeverRerun ==
    /\ [](\A i \in 1..Len(plan.steps) :
             plan.steps[i].status = "complete" =>
                /\ StartedCount(plan.steps[i].task_id) = 1
                /\ \A j \in 1..Len(plan.steps) :
                      j # i => plan.steps[j].task_id # plan.steps[i].task_id)
    /\ [][/\ \A i \in 1..Len(plan.steps) :
                plan.steps[i].status = "complete" =>
                   /\ i <= Len(plan'.steps)
                   /\ plan'.steps[i] = plan.steps[i]
          /\ ReplanMerged =>
                /\ cur' = Len(CompletedOf(plan.steps))
                /\ \A i \in 1..cur' : plan'.steps[i].status = "complete"
                /\ cur' < Len(plan'.steps)
                /\ plan'.steps[cur' + 1].status = "pending"
                /\ plan'.steps[cur' + 1].uid \notin UidsOf(plan)
          /\ pc = "loop" /\ pc' = "executing" =>
                /\ plan.steps[cur + 1].status = "pending"
                /\ plan'.steps[cur + 1].status = "running"]_vars

\* after a replan that kept a completed step, the first revised step is the
\* one running
C31_Witness ==
    /\ pc = "executing"
    /\ plan.replan_count = 1
    /\ cur = 1
    /\ plan.steps[1].status = "complete"
    /\ plan.steps[2].status = "running"
    /\ plan.steps[2].task = "retry"
    /\ Len(plan.steps) = 3


----------------------------------------------------------------------------
(* C32 *)

\* the moves of Plan.status the statement allows
PlanMoves ==
    {<<"pending", "executing">>, <<"executing", "replanning">>,
     <<"replanning", "executing">>, <<"executing", "complete">>,
     <<"executing", "failed">>}

\* C32: the plan's status only ever moves along pending -> executing ->
\* (replanning -> executing)* -> complete | failed: replanning is entered
\* only from executing and left only to executing, complete and failed are
\* entered only from executing, and a status of complete or failed never
\* changes again.
C32_PlanStatusMoves ==
    [][/\ plan'.status # plan.status => <<plan.status, plan'.status>> \in PlanMoves
       /\ plan.status \in {"complete", "failed"} => plan'.status = plan.status
       /\ ReplanMerged => plan.status = "executing" /\ plan'.status = "executing"
       /\ replan_calls' > replan_calls => plan.status = "executing"]_vars

\* a run that went through a replan and reached complete
C32_Witness ==
    /\ pc = "done"
    /\ plan.status = "complete"
    /\ plan.replan_count = 1
    /\ Len(plan.replan_history) = 1


----------------------------------------------------------------------------
(* C33 *)

\* the condition of row n of the veto table for a call made under context c
RowMatches(n, c, call) ==
    LET transfer == call.tool = "transfer_to_agent"
        src == call.agent
        dest == call.args.agent_name
    IN CASE n = 1 -> call.tool \in _MEMORY_TOOL_NAMES /\ src # "memory_subagent_c"
         [] n = 2 -> call.tool = "write_memory" /\ ~call.args.has_return_spec
         [] n = 3 -> transfer /\ dest = "memory_subagent_c" /\ src # "orchestrator_manager"
         [] n = 4 -> transfer /\ src = "memory_subagent_c" /\ dest # None
                     /\ dest # "orchestrator_manager"
         [] n = 5 -> transfer /\ dest = "communicator_subagent_d"
                     /\ src # "orchestrator_manager"
         [] n = 6 -> transfer /\ dest = "memory_subagent_c" /\ ~c.allow_memory_usage
         [] n = 7 -> transfer /\ dest \in {"planner_subagent_a", "executor_subagent_b"}
                     /\ c.require_memory_precheck /\ ~c.memory_precheck_seen
         [] n = 8 -> transfer /\ dest = "executor_subagent_b"
                     /\ c.require_planner_first_transfer /\ ~c.planner_transfer_seen
         [] n = 9 -> transfer /\ dest = "executor_subagent_b"
                     /\ c.planner_transfer_seen /\ ~c.planner_find_skill_called
         [] n = 10 -> transfer /\ dest = "executor_subagent_b"
                      /\ c.planner_transfer_seen /\ c.planner_find_skill_called
                      /\ ~c.planner_load_skill_called /\ ~c.planner_no_skill_found

\* the lowest-numbered row that matches, 0 when none does
TableRow(c, call) ==
    IF \E n \in 1..10 : RowMatches(n, c, call)
    THEN CHOOSE n \in 1..10 : /\ RowMatches(n, c, call)
                              /\ \A m \in 1..(n - 1) : ~RowMatches(m, c, call)
    ELSE 0

\* the row whose reason code a result carries, 0 for a call that goes ahead
RowReturned(result) ==
    CASE result = Permitted -> 0
      [] result.reason = "memory_tools_reserved_for_memory_subagent" -> 1
      [] result.reason = "missing return_spec" -> 2
      [] result.reason = "memory_transfer_allowed_only_from_orchestrator" -> 3
      [] result.reason = "memory_subagent_must_return_to_orchestrator" -> 4
      [] result.reason = "communicator_transfer_allowed_only_from_orchestrator" -> 5
      [] result.reason = "memory_usage_disabled_by_user" -> 6
      [] result.reason = "memory_precheck_required_before_execution" -> 7
      [] result.reason = "planner_required_before_executor_first_turn" -> 8
      [] result.reason = "planner_must_discover_skills_before_executor" -> 9
      [] result.reason = "planner_must_load_skills_before_executor" -> 10

\* C33: the veto rows are evaluated in the order of the table: when one
\* call matches several rows, the result is that of the lowest-numbered
\* matching row; so write_memory without return_spec called by a non-memory
\* agent yields memory_tools_reserved_for_memory_subagent, a transfer to the
\* memory sub-agent from a non-coordinator while memory is disabled yields
\* memory_transfer_allowed_only_from_orchestrator, and an executor transfer
\* on a first turn with the memory pre-check pending yields
\* memory_precheck_required_before_execution.
C33_TableOrder ==
    [][inflight = NoCall /\ last_call' # last_call =>
          RowReturned(last_call'.result) = TableRow(ctx, last_call')]_vars


----------------------------------------------------------------------------
(* C34 *)

\* the coordinator's transfer to the memory sub-agent under context c
MemoryTransfer(c) ==
    before_tool_callback(c, "orchestrator_manager", "transfer_to_agent",
                         [has_return_spec |-> FALSE, agent_name |-> "memory_subagent_c"])

\* C34: for every message and session state, the policy flags the runtime
\* binds satisfy: if the message disables memory then allow_memory = false
\* and require_memory_precheck = false, even on a first turn; so a bound
\* context never has require_memory_precheck = true together with
\* allow_memory = false, and a transfer to the planner that the memory
\* pre-check blocks is unblocked by a memory transfer that is permitted.
C34_FlagsConsistent ==
    /\ rq.trace_token.set /\ rq.pc \in {"trace_bound", "streaming"} =>
          /\ ctx.bound
          /\ ctx.require_planner_first_transfer = rq.is_first_turn
          /\ rq.memory_disabled_by_user =>
                ~ctx.allow_memory_usage /\ ~ctx.require_memory_precheck
          /\ ~rq.memory_disabled_by_user => ctx.allow_memory_usage
    /\ ctx.bound =>
          /\ ~(ctx.require_memory_precheck /\ ~ctx.allow_memory_usage)
          /\ PrecheckBlocks(ctx, "planner_subagent_a") =>
                /\ MemoryTransfer(ctx).result = Permitted
                /\ ~PrecheckBlocks(MemoryTransfer(ctx).ctx, "planner_subagent_a")

\* a first turn whose message disables memory: neither flag is bound
C34_Witness ==
    /\ rq.pc = "streaming"
    /\ rq.trace_token.set
    /\ rq.is_first_turn
    /\ rq.memory_disabled_by_user
    /\ ctx.bound
    /\ ctx.require_planner_first_transfer
    /\ ~ctx.allow_memory_usage
    /\ ~ctx.require_memory_precheck


----------------------------------------------------------------------------
(* C35 *)

\* C35: after every successful replan the merged plan (completed ++
\* revised ++ remaining) still satisfies the plan validator's bounds: it is
\* non-empty and has at most max_steps steps.
C35_MergedPlanBounded ==
    [][ReplanMerged => Len(plan'.steps) >= 1 /\ Len(plan'.steps) <= MaxSteps]_vars


----------------------------------------------------------------------------
(* C36 *)

\* the run coroutine is scheduled as long as it can take a step: every
\* awaited planner, executor and repository call answers
SpecRunFair == RunInit /\ [][NextRun]_vars /\ WF_vars(NextRun)

\* execute_plan has returned or raised
RunEnded == pc \in {"done", "raised"}

\* step executions so far, and their bound: the initial plan length plus
\* max_steps for each replan the budget allows
StepExecutions == task_seq
ExecutionBound == Len(planner_output.steps) + max_replans * MaxSteps

\* the run ended with an exception although every planner, executor and
\* repository call returned, after the loop had been entered
RaisedThoughCallsReturned ==
    /\ pc = "raised"
    /\ plan.status # "pending"
    /\ failure.kind \notin {"PlannerError", "ContractViolationError", "MemoryLockError"}

\* C36 as stated: every run of the execution loop terminates, provided each
\* planner, executor and repository call returns: after a number of step
\* executions bounded in terms of the initial plan length, max_steps and
\* max_replans, either the plan is complete or the run has ended with the
\* plan failed.
C36_TerminatesAsStated ==
    /\ <>RunEnded
    /\ [](StepExecutions <= ExecutionBound)
    /\ [](pc = "done" => plan.status = "complete")
    /\ [](RaisedThoughCallsReturned => plan.status = "failed")

\* C36, amended: every run terminates after at most initial plan length +
\* max_replans * max_steps step executions; it ends with the plan complete,
\* or with ReplanLimitReachedError and the plan failed, or with
\* PlanValidationError, raised for a revision the validator refuses, and the
\* plan left in replanning.
C36_Terminates ==
    /\ <>RunEnded
    /\ [](StepExecutions <= ExecutionBound)
    /\ [](pc = "done" => plan.status = "complete")
    /\ [](RaisedThoughCallsReturned =>
             \/ failure.kind = "ReplanLimitReachedError" /\ plan.status = "failed"
             \/ failure.kind = "PlanValidationError" /\ plan.status = "replanning")

\* a run that used its replan and as many step executions as the bound
\* allows has ended with the plan complete
C36_Witness ==
    /\ pc = "done"
    /\ plan.status = "complete"
    /\ max_replans = 1
    /\ plan.replan_count = 1
    /\ StepExecutions = ExecutionBound


----------------------------------------------------------------------------
(* C37 *)

\* the identifiers a writer passes to write() for this label
TupleOf(w, key) ==
    <<WriterIds[w].tenant_id, WriterIds[w].session_id, WriterIds[w].task_id, key>>

\* the identifiers a stored record carries
TupleOfRecord(r) == <<r.tenant_id, r.session_id, r.task_id, r.label>>

\* C37: distinct (tenant_id, session_id, task_id, label) tuples are always
\* stored under distinct namespaced keys, so a write for one tenant,
\* session or task never overwrites the record of, contends for the lock
\* of, or is read back as the record of another, for all identifier values
\* the write path accepts, tenant, session and task ids that contain ':'
\* included.  The writers of this store pass distinct tuples: none of
\* them ever waits for a lock, reads a record that carries other
\* identifiers than it passed, or removes a record of other identifiers.
C37_KeysDistinct ==
    /\ [](/\ probe.op = "write" => probe.outcome \notin {"sleep", "memory_lock_timeout"}
          /\ probe.op = "read" /\ probe.outcome = "ok" =>
                TupleOfRecord(RecordAt(mem_data, KeyOf(probe.writer, probe.key)))
                   = TupleOf(probe.writer, probe.key))
    /\ [][\A r \in mem_data :
             \E r2 \in mem_data' : TupleOfRecord(r2) = TupleOfRecord(r)]_vars


----------------------------------------------------------------------------
(* C38: a vetoed call leaves the flags of the request's context alone       *)

\* the five flags of _TraceContext that the callbacks write
PolicyFlags(c) ==
    <<c.memory_precheck_seen, c.planner_transfer_seen, c.planner_find_skill_called,
      c.planner_load_skill_called, c.planner_no_skill_found>>

\* before_tool_callback has just returned a veto for a call
VetoedNow ==
    /\ inflight = NoCall /\ inflight' = NoCall
    /\ last_call'.tool # None
    /\ last_call'.result.status \in {"blocked", "contract_violation"}

\* C38: whenever before_tool_callback returns a blocked or
\* contract_violation result, memory_precheck_seen, planner_transfer_seen,
\* planner_find_skill_called, planner_load_skill_called and
\* planner_no_skill_found keep the values they had before the call.
C38_VetoChangesNothing ==
    [][VetoedNow => PolicyFlags(ctx') = PolicyFlags(ctx)]_vars

\* an executor transfer has been vetoed by the load rule in a request whose
\* memory pre-check, planner transfer and skill discovery had all happened
C38_Witness ==
    /\ inflight = NoCall
    /\ last_call.tool = "transfer_to_agent"
    /\ last_call.args.agent_name = "executor_subagent_b"
    /\ last_call.result.status = "blocked"
    /\ last_call.result.reason = "planner_must_load_skills_before_executor"
    /\ ctx.memory_precheck_seen /\ ctx.planner_transfer_seen
    /\ ctx.planner_find_skill_called /\ ~ctx.planner_load_skill_called


----------------------------------------------------------------------------
(* C39: the write locks of the step outputs at the end of the run           *)

\* the lock of a completed step's output is held by the step's task
OutputLockHeld(step) ==
    \E l \in mem_locks :
        /\ l.key = step.memory_key
        /\ l.owner_task_id = step.task_id
        /\ l.expires_at > mono

\* no lock is held on the output of any step of the plan
NoOutputLocked ==
    \A i \in 1..Len(plan.steps), l \in mem_locks : l.key # plan.steps[i].memory_key

RanOutOfReplans == pc = "raised" /\ failure.kind = "ReplanLimitReachedError"

C39_ExhaustedAfterCompletion ==
    /\ RanOutOfReplans
    /\ \E i \in 1..Len(plan.steps) : plan.steps[i].status = "complete"


----------------------------------------------------------------------------
(* C40: planner_no_skill_found and the planner's find responses             *)

\* the flag tells whether the most recent response has an empty-result marker
FlagReflectsResponse == ctx.planner_no_skill_found = hist.last_empty

\* an executor transfer is attempted after a find of this planner visit was
\* answered with skills and nothing has been loaded
ExecutorAttemptAfterSkills ==
    /\ TransferAttempt("executor_subagent_b")
    /\ hist.planner_permitted /\ hist.find_called /\ ~hist.load_called
    /\ hist.visit_answered /\ ~hist.last_empty

\* C40 as stated: planner_no_skill_found always reflects the planner's most
\* recent find_relevant_skill response, true if and only if that response
\* contains an empty-result marker.
C40_ReflectsLastFindAsStated ==
    [](hist.find_answered => FlagReflectsResponse)

\* C40: since the most recent permitted planner transfer,
\* planner_no_skill_found is false until a find_relevant_skill response of
\* the planner arrives, and from then on it is true if and only if the most
\* recent such response contains an empty-result marker; an executor
\* transfer attempted after a find that returned skills, with nothing
\* loaded, is not permitted, whatever an earlier find of the visit returned.
C40_ReflectsLastFind ==
    /\ [](/\ hist.visit_answered => FlagReflectsResponse
          /\ (hist.planner_permitted /\ ~hist.visit_answered)
                => ~ctx.planner_no_skill_found)
    /\ [][ExecutorAttemptAfterSkills => last_call'.result # Permitted]_vars

\* in one planner visit a find returned none, a later find returned skills,
\* and the coordinator's executor transfer has been blocked for the load
C40_Witness ==
    /\ inflight = NoCall
    /\ hist.planner_permitted /\ hist.empty_seen /\ hist.visit_answered
    /\ ~hist.last_empty
    /\ ~ctx.planner_no_skill_found
    /\ last_call.tool = "transfer_to_agent"
    /\ last_call.agent = "orchestrator_manager"
    /\ last_call.args.agent_name = "executor_subagent_b"
    /\ last_call.result.status = "blocked"
    /\ last_call.result.reason = "planner_must_load_skills_before_executor"

====
